---- MODULE Spec2Model ----
(***************************************************************************)
(* Model of the event handler of src/lambda_event_handler.py:              *)
(* lambda_handler validates the records of event["events"], classifies the *)
(* accepted ones (add_type), collects the distinct event types, groups the *)
(* records by type (add_events_to_group) and prints every group.           *)
(*                                                                         *)
(* Python objects are modelled by value, Python references by position:    *)
(* the list event["events"] is the sequence event.events, and every list   *)
(* the handler derives from it (events_validate, events_with_type, the     *)
(* "events" list of a group) holds the positions of the dicts it refers    *)
(* to, because the code never copies a record.                             *)
(***************************************************************************)
EXTENDS Naturals, Sequences, FiniteSets

\* Bounds of the model.
MaxBatch == 3
MaxNameLen == 2

\* Characters of a name; ":" is the separator add_type splits on.
Chars == {"u", ":"}
Sep == ":"

\* A Python value: a missing key, a string (its characters), or a value that
\* is not a string (an int such as 0).
Absent == [t |-> "absent", s |-> <<>>]
IntVal == [t |-> "int", s |-> <<>>]
Str(s) == [t |-> "str", s |-> s]

Strings == UNION {[1..n -> Chars] : n \in 0..MaxNameLen}

\* A batch element: a dict with the keys that are not Absent, or something
\* that is not a mapping at all (mapping = FALSE), such as a number.
Element(m, n, e, i, ty) ==
    [mapping |-> m, name |-> n, event_id |-> e, id |-> i, event_type |-> ty]
NotAMapping == Element(FALSE, Absent, Absent, Absent, Absent)
\* Dicts without the key "event_type": the keys name, event_id and id are
\* there or not, the name is a string or a number.
Untyped ==
    {Element(TRUE, n, e, i, Absent) :
        n \in {Absent, IntVal} \cup {Str(s) : s \in Strings},
        e \in {Absent, IntVal},
        i \in {Absent, IntVal}}

\* Dicts that come with the key "event_type" already: its value is the type
\* of the name, another type, or the name is missing.
Typed ==
    {Element(TRUE, n, e, Absent, Str(<<"u", "u">>)) :
        n \in {Absent, Str(<<"u">>), Str(<<"u", "u">>)},
        e \in {Absent, IntVal}}

\* The dicts a batch can hold.
Dicts == Untyped \cup Typed
Elements == Dicts \cup {NotAMapping}
Batches(n) == [1..n -> Elements]

HasKey(e, k) == e[k] # Absent

VARIABLES
    event,            \* the argument of lambda_handler: a dict (mapping) with or
                      \* without the key "events", or a value that cannot be
                      \* subscripted (None); add_type mutates its records
    batch,            \* event["events"] as the caller passed it (never changed)
    pc,               \* position of lambda_handler
    events_validate,  \* line 106
    events_with_type, \* line 109
    event_types,      \* line 110
    events_groups,    \* line 111
    outcome,          \* per group: "Pending", "Unrouted" (printed), "Failed"
    printed,          \* the groups print was called with, in call order
    log,              \* messages given to logger.warning / logger.error
    result,           \* the value lambda_handler returns ("none" before it returns)
    run,              \* 1 in the first call of lambda_handler, 2 in a second one
    first             \* what the first call gave, kept when it is called again

\* The handlers of src/lambda_EC2_opeations.py (start/stop, snapshots).
VARIABLES
    ec2_event,        \* the argument of the handler
    ec2_pc,           \* position of the handler
    ec2_calls,        \* the calls made on the ec2 client, in call order
    ec2_response,     \* the value the handler returns
    utcnow,           \* what datetime.utcnow() gives at line 199
    cutoff,           \* line 199
    snapshots,        \* snapshots["Snapshots"] of line 200: the start times
    snap_i            \* position of the loop of line 203

\* lambda_handler of src/lambda_sqs_election_polls.py.
VARIABLES
    poll_event,       \* the argument of the handler
    poll_pc,          \* position of the handler
    poll_i,           \* position of the loop of line 22
    vote_counts,      \* line 13
    poll_printed,     \* the lines given to print
    poll_response     \* the value the handler returns

\* The vote-processing loop of main in src/boto3_sqs.py and its queue.
VARIABLES
    queue,            \* the messages of the main queue: body, place, receive count
    redrive,          \* whether the main queue has a RedrivePolicy
    loop_pc,          \* position of the loop of line 301
    messages,         \* line 302: the messages of this receive
    msg_i,            \* position of the loop of line 308
    handled,          \* what happened to the messages of this receive, in order
    sqs_response      \* what send_message or purge_queue returned last

\* SQSManager.create_dead_letter_queue of src/boto3_sqs.py.
VARIABLES
    dlq_args,         \* dlq_name, max_receive_count, the source queue as it was
    dlq_pc,           \* position of create_dead_letter_queue
    dlq_url,          \* line 193
    dlq_arn,          \* line 197
    source_attributes,\* the attributes of the source queue
    dlq_result        \* the value create_dead_letter_queue returns

\* scan_directory of src/lambda_s3_download_process_upload.py.
VARIABLES
    extension,        \* the extension of each name of the scanned directory
    directory,        \* the entries of the scanned directory, by name
    processed_files,  \* line 181
    new_files,        \* line 185, in the order the loop of line 187 takes them
    scan_i,           \* position of the loop of line 187
    scan_pc,          \* position of scan_directory
    passed,           \* the names process_file was called with, in call order
    listed            \* the regular files the last listing saw, unchanged since

handlerVars == <<event, batch, pc, events_validate, events_with_type, event_types,
                 events_groups, outcome, printed, log, result, run, first>>
ec2Vars == <<ec2_event, ec2_pc, ec2_calls, ec2_response, utcnow, cutoff,
             snapshots, snap_i>>
pollVars == <<poll_event, poll_pc, poll_i, vote_counts, poll_printed,
              poll_response>>
votesVars == <<queue, redrive, loop_pc, messages, msg_i, handled,
               sqs_response>>
dlqVars == <<dlq_args, dlq_pc, dlq_url, dlq_arn, source_attributes, dlq_result>>
scanVars == <<extension, directory, processed_files, new_files, scan_i, scan_pc, passed,
              listed>>

\* The programs other than the event handler.
otherPrograms == <<ec2Vars, pollVars, votesVars, dlqVars, scanVars>>

vars == <<handlerVars, otherPrograms>>

----------------------------------------------------------------------------
\* Pure functions of the source.

\* validate_event with a truthiness test (event.get(k) for every required k)
\* in place of the key test: an empty name is then refused.
validate_event_Truthy(e) ==
    IF ~e.mapping
    THEN [exc |-> "AttributeError", value |-> FALSE]
    ELSE [exc |-> "none",
          value |-> /\ HasKey(e, "name") /\ HasKey(e, "event_id")
                    /\ e.name # Str(<<>>)]

\* validate_event: required_keys.issubset(event.keys()); an element without
\* .keys() raises AttributeError.
validate_event(e) ==
    IF ~e.mapping
    THEN [exc |-> "AttributeError", value |-> FALSE]
    ELSE [exc |-> "none", value |-> HasKey(e, "name") /\ HasKey(e, "event_id")]

\* str.split(sep) for a one-character separator: the list of the pieces.
RECURSIVE SplitAcc(_, _, _, _)
SplitAcc(s, sep, i, cur) ==
    IF i > Len(s) THEN <<cur>>
    ELSE IF s[i] = sep THEN <<cur>> \o SplitAcc(s, sep, i + 1, <<>>)
    ELSE SplitAcc(s, sep, i + 1, Append(cur, s[i]))
split(s, sep) == SplitAcc(s, sep, 1, <<>>)

\* add_type taking the last piece of the split name ([-1] for [0]).
add_type_LastPiece(e) ==
    IF ~HasKey(e, "name") THEN [exc |-> "KeyError", event |-> e]
    ELSE IF e.name.t # "str" THEN [exc |-> "AttributeError", event |-> e]
    ELSE [exc |-> "none",
          event |-> [e EXCEPT !.event_type =
                       Str(split(e.name.s, Sep)[Len(split(e.name.s, Sep))])]]

\* add_type that also stores the type as the name (event["name"] assigned
\* along with event["event_type"]).
add_type_RenamesName(e) ==
    IF ~HasKey(e, "name") THEN [exc |-> "KeyError", event |-> e]
    ELSE IF e.name.t # "str" THEN [exc |-> "AttributeError", event |-> e]
    ELSE [exc |-> "none",
          event |-> [e EXCEPT !.event_type = Str(split(e.name.s, Sep)[1]),
                              !.name = Str(split(e.name.s, Sep)[1])]]

\* add_type that takes the type out of the name: the name keeps what follows
\* its first separator (name.partition(":") stored back).
add_type_ConsumesPrefix(e) ==
    IF ~HasKey(e, "name") THEN [exc |-> "KeyError", event |-> e]
    ELSE IF e.name.t # "str" THEN [exc |-> "AttributeError", event |-> e]
    ELSE LET first_piece == split(e.name.s, Sep)[1] IN
         [exc |-> "none",
          event |-> [e EXCEPT !.event_type = Str(first_piece),
                              !.name = Str(SubSeq(e.name.s, Len(first_piece) + 2,
                                                  Len(e.name.s)))]]

\* add_type: event["event_type"] = event["name"].split(":")[0], in place.
\* A missing name raises KeyError (logged, re-raised); a name that is not a
\* string has no split and raises AttributeError.
add_type(e) ==
    IF ~HasKey(e, "name") THEN [exc |-> "KeyError", event |-> e]
    ELSE IF e.name.t # "str" THEN [exc |-> "AttributeError", event |-> e]
    ELSE [exc |-> "none",
          event |-> [e EXCEPT !.event_type = Str(split(e.name.s, Sep)[1])]]

\* group_dict
group_dict(type_name) == [event_type |-> type_name, events |-> <<>>]

\* The inner loop without the comparison of line 73.
AddToGroups_NoTypeCheck(groups, r, heap) ==
    [j \in 1..Len(groups) |-> [groups[j] EXCEPT !.events = Append(@, r)]]

\* The inner loop with insert(0, e) for append(e).
AddToGroups_Prepend(groups, r, heap) ==
    [j \in 1..Len(groups) |->
        IF heap[r].event_type = groups[j].event_type
        THEN [groups[j] EXCEPT !.events = <<r>> \o @]
        ELSE groups[j]]

\* The inner loop with a break after the first group that takes the record.
AddToGroups_FirstMatch(groups, r, heap) ==
    [j \in 1..Len(groups) |->
        IF /\ heap[r].event_type = groups[j].event_type
           /\ \A k \in 1..(j - 1) : groups[k].event_type # heap[r].event_type
        THEN [groups[j] EXCEPT !.events = Append(@, r)]
        ELSE groups[j]]

\* add_events_to_group: inner loop (lines 72-74) for the record at position r.
AddToGroups(groups, r, heap) ==
    [j \in 1..Len(groups) |->
        IF heap[r].event_type = groups[j].event_type
        THEN [groups[j] EXCEPT !.events = Append(@, r)]
        ELSE groups[j]]

\* add_events_to_group: outer loop (lines 70-74) from the i-th record on.
RECURSIVE AddFrom(_, _, _, _)
AddFrom(groups, refs, i, heap) ==
    IF i > Len(refs) THEN groups
    ELSE AddFrom(AddToGroups(groups, refs[i], heap), refs, i + 1, heap)

add_events_to_group(refs, types, heap) ==
    AddFrom([j \in 1..Len(types) |-> group_dict(types[j])], refs, 1, heap)

\* Line 106 with one test per required key (for k in required_keys if k in e):
\* a record is kept once for every required key it has.
RECURSIVE ValidateFrom_PerKey(_, _, _)
ValidateFrom_PerKey(evs, i, acc) ==
    IF i > Len(evs) THEN [exc |-> "none", refs |-> acc]
    ELSE LET v == validate_event(evs[i])
             a1 == IF HasKey(evs[i], "name") THEN Append(acc, i) ELSE acc
             a2 == IF HasKey(evs[i], "event_id") THEN Append(a1, i) ELSE a1
         IN
         IF v.exc # "none" THEN [exc |-> v.exc, refs |-> acc]
         ELSE ValidateFrom_PerKey(evs, i + 1, a2)

\* Line 106 as a loop that breaks at the first record that fails the test.
RECURSIVE ValidateFrom_StopAtInvalid(_, _, _)
ValidateFrom_StopAtInvalid(evs, i, acc) ==
    IF i > Len(evs) THEN [exc |-> "none", refs |-> acc]
    ELSE LET v == validate_event(evs[i]) IN
         IF v.exc # "none" THEN [exc |-> v.exc, refs |-> acc]
         ELSE IF ~v.value THEN [exc |-> "none", refs |-> acc]
         ELSE ValidateFrom_StopAtInvalid(evs, i + 1, Append(acc, i))

\* Line 106: [e for e in events if validate_event(e)], from position i on;
\* the first element that makes validate_event raise ends the comprehension.
RECURSIVE ValidateFrom(_, _, _)
ValidateFrom(evs, i, acc) ==
    IF i > Len(evs) THEN [exc |-> "none", refs |-> acc]
    ELSE LET v == validate_event(evs[i]) IN
         IF v.exc # "none" THEN [exc |-> v.exc, refs |-> acc]
         ELSE ValidateFrom(evs, i + 1, IF v.value THEN Append(acc, i) ELSE acc)

\* Line 109: [add_type(e) for e in events_validate], from the i-th accepted
\* record on. The records classified before a raise stay mutated.
RECURSIVE ClassifyFrom(_, _, _, _)
ClassifyFrom(heap, refs, i, acc) ==
    IF i > Len(refs) THEN [exc |-> "none", heap |-> heap, refs |-> acc]
    ELSE LET a == add_type(heap[refs[i]]) IN
         IF a.exc # "none" THEN [exc |-> a.exc, heap |-> heap, refs |-> acc]
         ELSE ClassifyFrom([heap EXCEPT ![refs[i]] = a.event], refs, i + 1,
                           Append(acc, refs[i]))

\* Every arrangement of the elements of a set: the orders in which a set of
\* strings that are not empty can be read.
Orders(S) ==
    {q \in [1..Cardinality(S) -> S] : \A x \in S : \E j \in DOMAIN q : q[j] = x}

\* The distinct values of a list in the order they first appear: the order
\* in which set(...) of line 110 takes them in.
RECURSIVE FirstSeenFrom(_, _, _)
FirstSeenFrom(l, i, acc) ==
    IF i > Len(l) THEN acc
    ELSE FirstSeenFrom(l, i + 1,
                       IF \E j \in DOMAIN acc : acc[j] = l[i] THEN acc
                       ELSE Append(acc, l[i]))
FirstSeen(l) == FirstSeenFrom(l, 1, <<>>)

\* The slots set(...) of line 110 can put the values of l in, a set of up to
\* four strings being a table of eight slots that list(...) reads from slot
\* 0 on: the hash of a string depends on the hash seed of the process, so a
\* string that is not empty can be in any free slot; the hash of "" is 0
\* with every seed, so "" is in slot 0, or in the next free slot of its
\* probe sequence 0, 1, 6, 7, 4, 5, 2, 3 when a value taken in before it
\* has that slot.
SlotTables(l) ==
    LET probe == <<0, 1, 6, 7, 4, 5, 2, 3>> IN
    {f \in [DOMAIN l -> 0..7] :
        /\ \A a, b \in DOMAIN l : f[a] = f[b] => a = b
        /\ \A k \in DOMAIN l :
              l[k] = Str(<<>>) =>
                  \E p \in DOMAIN probe :
                      /\ probe[p] = f[k]
                      /\ \A r \in 1..(p - 1) :
                            \E j \in 1..(k - 1) : f[j] = probe[r]}

\* Line 110 with a bucket for the empty type created up front, whether or
\* not a record has it.
SetOrders_WithDefault(l) ==
    LET S == {l[k] : k \in DOMAIN l} \cup {Str(<<>>)} IN
    {q \in [1..Cardinality(S) -> S] : \A x \in S : \E j \in DOMAIN q : q[j] = x}

\* The orders list(set(l)) of line 110 can give: the distinct values of l
\* by slot. (A set of more than four values has a larger table: every
\* arrangement is taken then.)
SetOrders(l) ==
    LET seen == FirstSeen(l)
        S == {seen[k] : k \in DOMAIN seen}
    IN  IF Len(seen) > 4 THEN Orders(S)
        ELSE {q \in Orders(S) :
                \E f \in SlotTables(seen) :
                    \A a, b \in DOMAIN seen :
                        f[a] < f[b] =>
                            \A i, j \in DOMAIN q :
                                (q[i] = seen[a] /\ q[j] = seen[b]) => i < j}

\* The except clauses with AttributeError caught by the first one
\* (except (KeyError, AttributeError)).
ErrorResult_Merged(exc) ==
    IF exc \in {"KeyError", "AttributeError"} THEN "Error: Missing key in event data"
    ELSE "Error: An unexpected error occurred"

\* The except clauses of lambda_handler (lines 117-122): the value returned
\* and the message logged (without the text of the exception).
ErrorResult(exc) ==
    IF exc = "KeyError" THEN "Error: Missing key in event data"
    ELSE "Error: An unexpected error occurred"
ErrorLog(exc) ==
    IF exc = "KeyError" THEN "Missing key in event data"
    ELSE "An unexpected error occurred"

WarnExcluded == "Some events failed validation and were excluded."
MissingKeyInEvent == "Missing key in event"

\* Lines 107-108 with the warning inside a loop over the excluded records.
WarnIfExcluded_PerRecord(lg, accepted, events) ==
    lg \o [k \in 1..(Len(events) - Len(accepted)) |-> WarnExcluded]

\* Lines 107-108 with == for != in the comparison of the lengths.
WarnIfExcluded_Inverted(lg, accepted, events) ==
    IF Len(accepted) = Len(events) THEN Append(lg, WarnExcluded) ELSE lg

\* Lines 107-108: one warning when some record was excluded.
WarnIfExcluded(lg, accepted, events) ==
    IF Len(accepted) # Len(events) THEN Append(lg, WarnExcluded) ELSE lg

----------------------------------------------------------------------------
\* The handler, step by step.

\* The groups with their records by content, as print shows them.
Shown(groups, heap) ==
    [j \in 1..Len(groups) |->
        [event_type |-> groups[j].event_type,
         events |-> [k \in 1..Len(groups[j].events) |-> heap[groups[j].events[k]]]]]

\* The types of the groups that have outcome o.
TypesWith(groups, out, o) ==
    {groups[j].event_type : j \in {k \in 1..Len(groups) : out[k] = o}}

\* Nothing is kept before a second call.
NoCall ==
    [result |-> "none", groups |-> <<>>, outcome |-> <<>>, event_types |-> <<>>,
     types_set |-> {}, failed |-> {}]

\* The state of a program that is not running.
NoResponse == [status |-> "none", text |-> "", arg |-> <<>>]
NoPollResponse == [statusCode |-> 0, body |-> ""]
IdleHandler ==
    /\ event = [mapping |-> FALSE, has_events |-> FALSE, events |-> <<>>]
    /\ batch = <<>>
    /\ pc = "idle"
    /\ events_validate = <<>>
    /\ events_with_type = <<>>
    /\ event_types = <<>>
    /\ events_groups = <<>>
    /\ outcome = <<>>
    /\ printed = <<>>
    /\ log = <<>>
    /\ result = "none"
    /\ run = 1
    /\ first = NoCall
IdleEC2 ==
    /\ ec2_event = <<>>
    /\ ec2_pc = "idle"
    /\ ec2_calls = <<>>
    /\ ec2_response = NoResponse
    /\ utcnow = 0
    /\ cutoff = 0
    /\ snapshots = <<>>
    /\ snap_i = 0
IdlePolls ==
    /\ poll_event = <<>>
    /\ poll_pc = "idle"
    /\ poll_i = 0
    /\ vote_counts = <<>>
    /\ poll_printed = <<>>
    /\ poll_response = NoPollResponse
IdleVotes ==
    /\ queue = <<>>
    /\ redrive = FALSE
    /\ loop_pc = "idle"
    /\ messages = <<>>
    /\ msg_i = 0
    /\ handled = <<>>
    /\ sqs_response = "none"
IdleDLQ ==
    /\ dlq_args = <<>>
    /\ dlq_pc = "idle"
    /\ dlq_url = <<>>
    /\ dlq_arn = <<>>
    /\ source_attributes = <<>>
    /\ dlq_result = <<>>
IdleScan ==
    /\ extension = <<>>
    /\ directory = <<>>
    /\ processed_files = {}
    /\ new_files = <<>>
    /\ scan_i = 0
    /\ scan_pc = "idle"
    /\ passed = <<>>
    /\ listed = {}

Init ==
    /\ \E n \in 0..MaxBatch : batch \in Batches(n)
    /\ event \in {[mapping |-> m, has_events |-> h, events |-> batch] :
                    m, h \in BOOLEAN}
    /\ (~event.mapping => ~event.has_events)
    /\ (~event.has_events => batch = <<>>)
    /\ pc = "validate"
    /\ events_validate = <<>>
    /\ events_with_type = <<>>
    /\ event_types = <<>>
    /\ events_groups = <<>>
    /\ outcome = <<>>
    /\ printed = <<>>
    /\ log = <<>>
    /\ result = "none"
    /\ run = 1
    /\ first = NoCall
    /\ IdleEC2 /\ IdlePolls /\ IdleVotes /\ IdleDLQ /\ IdleScan

\* An exception reaches the except clauses: log it and return the error text.
Fail(exc, lg) ==
    /\ log' = Append(lg, ErrorLog(exc))
    /\ result' = ErrorResult(exc)
    /\ pc' = "done"

\* Lines 104-108.
Validate ==
    /\ pc = "validate"
    /\ IF ~event.mapping \/ ~event.has_events
       THEN /\ Fail(IF event.mapping THEN "KeyError" ELSE "TypeError", log)
            /\ UNCHANGED events_validate
       ELSE LET v == ValidateFrom(event.events, 1, <<>>) IN
            IF v.exc # "none"
            THEN /\ Fail(v.exc, log)
                 /\ UNCHANGED events_validate
            ELSE /\ events_validate' = v.refs
                 /\ log' = WarnIfExcluded(log, v.refs, event.events)
                 /\ pc' = "classify"
                 /\ UNCHANGED result
    /\ UNCHANGED otherPrograms
    /\ UNCHANGED <<event, batch, events_with_type, event_types, events_groups,
                   outcome, printed, run, first>>

\* Line 109.
Classify ==
    /\ pc = "classify"
    /\ LET c == ClassifyFrom(event.events, events_validate, 1, <<>>) IN
       /\ event' = [event EXCEPT !.events = c.heap]
       /\ IF c.exc # "none"
          THEN /\ Fail(c.exc, IF c.exc = "KeyError"
                              THEN Append(log, MissingKeyInEvent) ELSE log)
               /\ UNCHANGED events_with_type
          ELSE /\ events_with_type' = c.refs
               /\ pc' = "types"
               /\ UNCHANGED <<log, result>>
    /\ UNCHANGED otherPrograms
    /\ UNCHANGED <<batch, events_validate, event_types, events_groups, outcome,
                   printed, run, first>>

\* Line 110: list(set(...)) keeps one entry per type, in the set's order.
CollectTypes ==
    /\ pc = "types"
    /\ LET l == [k \in 1..Len(events_with_type) |->
                    event.events[events_with_type[k]].event_type]
           S == {l[k] : k \in DOMAIN l} IN
       event_types' \in
         IF run = 2 /\ first.types_set = S THEN {first.event_types}
         ELSE SetOrders(l)
    /\ pc' = "group"
    /\ UNCHANGED otherPrograms
    /\ UNCHANGED <<event, batch, events_validate, events_with_type,
                   events_groups, outcome, printed, log, result, run, first>>

\* Lines 111-113.
Group ==
    /\ pc = "group"
    /\ events_groups' =
         add_events_to_group(events_with_type, event_types, event.events)
    /\ outcome' = [j \in 1..Len(event_types) |-> "Pending"]
    /\ pc' = "print"
    /\ UNCHANGED otherPrograms
    /\ UNCHANGED <<event, batch, events_validate, events_with_type,
                   event_types, printed, log, result, run, first>>

\* The loop of lines 114-115 starting again at the first group after every
\* group.
NextGroup_Restart ==
    IF \E j \in 1..Len(outcome) : outcome[j] = "Pending" THEN 1 ELSE 0

\* The group the loop of lines 114-115 is at: the first one still pending.
NextGroup ==
    IF \E j \in 1..Len(outcome) : outcome[j] = "Pending"
    THEN CHOOSE j \in 1..Len(outcome) :
            /\ outcome[j] = "Pending"
            /\ \A k \in 1..(j - 1) : outcome[k] # "Pending"
    ELSE 0

\* Line 115 emptying the group it has printed (g["events"].clear()).
PrintGroup_Consumes ==
    /\ pc = "print"
    /\ NextGroup # 0
    /\ outcome' = [outcome EXCEPT ![NextGroup] = "Unrouted"]
    /\ printed' = Append(printed, NextGroup)
    /\ events_groups' = [events_groups EXCEPT ![NextGroup].events = <<>>]
    /\ UNCHANGED otherPrograms
    /\ UNCHANGED <<event, batch, pc, events_validate, events_with_type,
                   event_types, log, result, run, first>>

\* Line 115: print(g) returns.
PrintGroup ==
    /\ pc = "print"
    /\ NextGroup # 0
    /\ outcome' = [outcome EXCEPT ![NextGroup] = "Unrouted"]
    /\ printed' = Append(printed, NextGroup)
    /\ UNCHANGED otherPrograms
    /\ UNCHANGED <<event, batch, pc, events_validate, events_with_type,
                   event_types, events_groups, log, result, run, first>>

\* Line 115: print(g) raises (the output stream is closed or broken at that
\* moment, in a first call or in a second one, whatever it did before); the
\* exception leaves the loop and reaches line 120.
PrintRaises ==
    /\ pc = "print"
    /\ NextGroup # 0
    /\ outcome' = [outcome EXCEPT ![NextGroup] = "Failed"]
    /\ printed' = Append(printed, NextGroup)
    /\ Fail("OSError", log)
    /\ UNCHANGED otherPrograms
    /\ UNCHANGED <<event, batch, events_validate, events_with_type,
                   event_types, events_groups, run, first>>

\* Line 116.
Return ==
    /\ pc = "print"
    /\ NextGroup = 0
    /\ result' = "events processed"
    /\ pc' = "done"
    /\ UNCHANGED otherPrograms
    /\ UNCHANGED <<event, batch, events_validate, events_with_type,
                   event_types, events_groups, outcome, printed, log, run, first>>

Next ==
    \/ Validate
    \/ Classify
    \/ CollectTypes
    \/ Group
    \/ PrintGroup
    \/ PrintRaises
    \/ Return

Spec == Init /\ [][Next]_vars

\* lambda_handler is called a second time, with the event object of the first
\* call: the records keep the event_type the first call gave them (add_type
\* works in place), the locals start afresh, the logger keeps its messages.
Rerun ==
    /\ pc = "done"
    /\ run = 1
    /\ first' = [result |-> result,
                 groups |-> Shown(events_groups, event.events),
                 outcome |-> outcome,
                 event_types |-> event_types,
                 types_set |-> {event_types[j] : j \in 1..Len(event_types)},
                 failed |-> TypesWith(events_groups, outcome, "Failed")]
    /\ run' = 2
    /\ pc' = "validate"
    /\ events_validate' = <<>>
    /\ events_with_type' = <<>>
    /\ event_types' = <<>>
    /\ events_groups' = <<>>
    /\ outcome' = <<>>
    /\ printed' = <<>>
    /\ result' = "none"
    /\ UNCHANGED otherPrograms
    /\ UNCHANGED <<event, batch, log>>

NextTwice ==
    \/ Next
    \/ Rerun

SpecTwice == Init /\ [][NextTwice]_vars

----------------------------------------------------------------------------
\* add_events_to_group called on its own (lines 58-75), with any list of
\* event types: a type can be listed twice, and a record can have a type
\* that is not listed. The records have the key "event_type", as the ones
\* add_type returns; events_with_type is the argument events (the positions
\* of the records), event_types the argument event_types.

MaxTypes == 3

TypeNames == {Str(s) : s \in {q \in Strings : \A k \in DOMAIN q : q[k] # Sep}}
TypedRecords == {Element(TRUE, ty, IntVal, Absent, ty) : ty \in TypeNames}

InitGroup ==
    /\ \E n \in 0..MaxBatch : batch \in [1..n -> TypedRecords]
    /\ event = [mapping |-> TRUE, has_events |-> TRUE, events |-> batch]
    /\ events_with_type = [k \in 1..Len(batch) |-> k]
    /\ \E n \in 0..MaxTypes : event_types \in [1..n -> TypeNames]
    /\ pc = "call"
    /\ events_validate = <<>>
    /\ events_groups = <<>>
    /\ outcome = <<>>
    /\ printed = <<>>
    /\ log = <<>>
    /\ result = "none"
    /\ run = 1
    /\ first = NoCall
    /\ IdleEC2 /\ IdlePolls /\ IdleVotes /\ IdleDLQ /\ IdleScan

\* Lines 69-75.
CallGroup ==
    /\ pc = "call"
    /\ events_groups' =
         add_events_to_group(events_with_type, event_types, event.events)
    /\ pc' = "returned"
    /\ UNCHANGED otherPrograms
    /\ UNCHANGED <<event, batch, events_validate, events_with_type,
                   event_types, outcome, printed, log, result, run, first>>

SpecGroup == InitGroup /\ [][CallGroup]_vars

----------------------------------------------------------------------------
\* The handlers of src/lambda_EC2_opeations.py, four functions of the name
\* lambda_handler: lines 15-40 (start/stop), 70-92 (auto-healing), 119-146
\* (custom scaling) and 176-210 (snapshots). The calls on the ec2 client are
\* kept in ec2_calls; a call returns or raises, and a call that raises has
\* done nothing.

MaxIds == 2
MaxSnapshots == 3
MaxSkew == 1

\* timedelta(days=7), in days.
RetentionDays == 7

\* What event.get gives for a key the event does not have.
NoneValue == "None"

InstanceIds == {"i-0", "i-1"}

\* instance_ids: None (given = FALSE) or a list of instance ids.
IdLists ==
    {[given |-> FALSE, list |-> <<>>]} \cup
    {[given |-> TRUE, list |-> q] :
        q \in UNION {[1..n -> InstanceIds] : n \in 0..MaxIds}}

\* The event of the start/stop handler: a dict, or a value without get.
StartStopEvents ==
    {[mapping |-> TRUE, action |-> a, instance_ids |-> i] :
        a \in {NoneValue, "start", "stop", "Start", "reboot"}, i \in IdLists}
    \cup {[mapping |-> FALSE, action |-> NoneValue,
           instance_ids |-> [given |-> FALSE, list |-> <<>>]]}

\* The event of the snapshot handler.
SnapshotEvents ==
    {[mapping |-> TRUE, action |-> a, volume_id |-> v] :
        a \in {NoneValue, "create", "delete", "purge"},
        v \in {NoneValue, "", "vol-0"}}
    \cup {[mapping |-> FALSE, action |-> NoneValue, volume_id |-> NoneValue]}

\* A call returns ("none") or raises an exception with one of these texts.
ExceptionTexts == {"UnauthorizedOperation", "RequestLimitExceeded"}
Outcomes == {"none"} \cup ExceptionTexts

\* A returned dict {"status": ..., "message": ...}: the message is a text
\* followed by the value the f-string formats into it.
Response(status, text, arg) == [status |-> status, text |-> text, arg |-> arg]
InvalidInput == Response("error", "Invalid input data", <<>>)
Call(op, arg, raised) == [op |-> op, arg |-> arg, raised |-> raised]

\* The result of a call that raised or returned (lines 38-40, 208-210).
AfterCall(raised, text, arg) ==
    IF raised = "none" THEN Response("success", text, arg)
    ELSE Response("error", raised, <<>>)

\* not instance_ids
Falsy(ids) == ~ids.given \/ Len(ids.list) = 0

\* Line 27 with "and" for "or".
InvalidStartStop_And(action, instance_ids) ==
    Falsy(instance_ids) /\ action \notin {"start", "stop"}

\* Line 27.
InvalidStartStop(action, instance_ids) ==
    Falsy(instance_ids) \/ action \notin {"start", "stop"}

\* Line 188.
InvalidSnapshot(action, volume_id) ==
    action \notin {"create", "delete"} \/ volume_id \in {NoneValue, ""}

\* Line 204 with <= for <.
OlderThan_OrEqual(start, cut) == start <= cut

\* Line 204: snapshot["StartTime"].replace(tzinfo=None) < cutoff; the start
\* time is in UTC, as utcnow is, and replace keeps its value.
OlderThan(start, cut) == start < cut

\* The clock and the start times around the cutoff, in days.
Clock == {RetentionDays + MaxSkew}
StartTimes(now) ==
    ((now - RetentionDays) - MaxSkew)..((now - RetentionDays) + MaxSkew)
SnapshotLists(now) == UNION {[1..n -> StartTimes(now)] : n \in 0..MaxSnapshots}

notEC2 == <<handlerVars, pollVars, votesVars, dlqVars, scanVars>>

InitStartStop ==
    /\ ec2_event \in StartStopEvents
    /\ ec2_pc = "check"
    /\ ec2_calls = <<>>
    /\ ec2_response = NoResponse
    /\ utcnow = 0
    /\ cutoff = 0
    /\ snapshots = <<>>
    /\ snap_i = 0
    /\ IdleHandler /\ IdlePolls /\ IdleVotes /\ IdleDLQ /\ IdleScan

\* Lines 24-28. event.get of a value that is no dict raises AttributeError,
\* outside the try.
StartStop_Check ==
    /\ ec2_pc = "check"
    /\ IF ~ec2_event.mapping
       THEN /\ ec2_response' = Response("raised", "AttributeError", <<>>)
            /\ ec2_pc' = "done"
       ELSE IF InvalidStartStop(ec2_event.action, ec2_event.instance_ids)
       THEN /\ ec2_response' = InvalidInput
            /\ ec2_pc' = "done"
       ELSE /\ ec2_pc' = "call"
            /\ UNCHANGED ec2_response
    /\ UNCHANGED <<ec2_event, ec2_calls, utcnow, cutoff, snapshots, snap_i>>
    /\ UNCHANGED notEC2

\* Lines 30-40.
StartStop_Call ==
    /\ ec2_pc = "call"
    /\ \E raised \in Outcomes :
         LET ids == ec2_event.instance_ids.list IN
         IF ec2_event.action = "start"
         THEN /\ ec2_calls' = Append(ec2_calls, Call("start_instances", ids, raised))
              /\ ec2_response' =
                   AfterCall(raised, "Successfully started instances: ", ids)
         ELSE /\ ec2_calls' = Append(ec2_calls, Call("stop_instances", ids, raised))
              /\ ec2_response' =
                   AfterCall(raised, "Successfully stopped instances: ", ids)
    /\ ec2_pc' = "done"
    /\ UNCHANGED <<ec2_event, utcnow, cutoff, snapshots, snap_i>>
    /\ UNCHANGED notEC2

NextStartStop ==
    \/ StartStop_Check
    \/ StartStop_Call

SpecStartStop == InitStartStop /\ [][NextStartStop]_vars

InitSnapshot ==
    /\ ec2_event \in SnapshotEvents
    /\ ec2_pc = "check"
    /\ ec2_calls = <<>>
    /\ ec2_response = NoResponse
    /\ utcnow \in Clock
    /\ cutoff = 0
    /\ snapshots = <<>>
    /\ snap_i = 0
    /\ IdleHandler /\ IdlePolls /\ IdleVotes /\ IdleDLQ /\ IdleScan

\* Lines 185-189, and the test of line 192.
Snapshot_Check ==
    /\ ec2_pc = "check"
    /\ IF ~ec2_event.mapping
       THEN /\ ec2_response' = Response("raised", "AttributeError", <<>>)
            /\ ec2_pc' = "done"
       ELSE IF InvalidSnapshot(ec2_event.action, ec2_event.volume_id)
       THEN /\ ec2_response' = InvalidInput
            /\ ec2_pc' = "done"
       ELSE /\ ec2_pc' = IF ec2_event.action = "create" THEN "create" ELSE "describe"
            /\ UNCHANGED ec2_response
    /\ UNCHANGED <<ec2_event, ec2_calls, utcnow, cutoff, snapshots, snap_i>>
    /\ UNCHANGED notEC2

\* Lines 193-196 and 208-210.
Snapshot_Create ==
    /\ ec2_pc = "create"
    /\ \E raised \in Outcomes :
         /\ ec2_calls' =
              Append(ec2_calls,
                     Call("create_snapshot", <<ec2_event.volume_id>>, raised))
         /\ ec2_response' =
              AfterCall(raised, "Successfully created snapshot: ", <<"snap-0">>)
    /\ ec2_pc' = "done"
    /\ UNCHANGED <<ec2_event, utcnow, cutoff, snapshots, snap_i>>
    /\ UNCHANGED notEC2

\* Lines 199-202: the cutoff, and the snapshots of the volume.
Snapshot_Describe ==
    /\ ec2_pc = "describe"
    /\ cutoff' = utcnow - RetentionDays
    /\ \E raised \in Outcomes :
         /\ ec2_calls' =
              Append(ec2_calls,
                     Call("describe_snapshots", <<ec2_event.volume_id>>, raised))
         /\ IF raised = "none"
            THEN /\ snapshots' \in SnapshotLists(utcnow)
                 /\ snap_i' = 1
                 /\ ec2_pc' = "loop"
                 /\ UNCHANGED ec2_response
            ELSE /\ ec2_response' = AfterCall(raised, "", <<>>)
                 /\ ec2_pc' = "done"
                 /\ UNCHANGED <<snapshots, snap_i>>
    /\ UNCHANGED <<ec2_event, utcnow>>
    /\ UNCHANGED notEC2

\* Lines 203-205, for the snapshot the loop is at; the SnapshotId of a
\* snapshot is its position in the list.
Snapshot_Visit ==
    /\ ec2_pc = "loop"
    /\ snap_i <= Len(snapshots)
    /\ IF OlderThan(snapshots[snap_i], cutoff)
       THEN \E raised \in Outcomes :
              /\ ec2_calls' =
                   Append(ec2_calls, Call("delete_snapshot", <<snap_i>>, raised))
              /\ IF raised = "none"
                 THEN /\ snap_i' = snap_i + 1
                      /\ UNCHANGED <<ec2_pc, ec2_response>>
                 ELSE /\ ec2_response' = AfterCall(raised, "", <<>>)
                      /\ ec2_pc' = "done"
                      /\ UNCHANGED snap_i
       ELSE /\ snap_i' = snap_i + 1
            /\ UNCHANGED <<ec2_calls, ec2_pc, ec2_response>>
    /\ UNCHANGED <<ec2_event, utcnow, cutoff, snapshots>>
    /\ UNCHANGED notEC2

\* Lines 206-208.
Snapshot_Return ==
    /\ ec2_pc = "loop"
    /\ snap_i > Len(snapshots)
    /\ ec2_response' =
         AfterCall("none", "Successfully deleted old snapshots", <<>>)
    /\ ec2_pc' = "done"
    /\ UNCHANGED <<ec2_event, ec2_calls, utcnow, cutoff, snapshots, snap_i>>
    /\ UNCHANGED notEC2

NextSnapshot ==
    \/ Snapshot_Check
    \/ Snapshot_Create
    \/ Snapshot_Describe
    \/ Snapshot_Visit
    \/ Snapshot_Return

SpecSnapshot == InitSnapshot /\ [][NextSnapshot]_vars

\* The event of the auto-healing handler (lines 70-92): a dict, or a value
\* without get.
AutoHealEvents ==
    {[mapping |-> TRUE, instance_id |-> i, state |-> s] :
        i \in {NoneValue} \cup InstanceIds,
        s \in {NoneValue, "ALARM", "OK", "alarm"}}
    \cup {[mapping |-> FALSE, instance_id |-> NoneValue, state |-> NoneValue]}

\* The event of the custom scaling handler (lines 119-146).
ScalingEvents ==
    {[mapping |-> TRUE, action |-> a, instance_id |-> i] :
        a \in {NoneValue, "scale_out", "scale_in", "start"},
        i \in {NoneValue, ""} \cup InstanceIds}
    \cup {[mapping |-> FALSE, action |-> NoneValue, instance_id |-> NoneValue]}

NoAction == Response("error", "No action needed, state is not ALARM", <<>>)

\* Line 131.
InvalidScaling(action, instance_id) ==
    action \notin {"scale_out", "scale_in"} \/ instance_id \in {NoneValue, ""}

InitAutoHeal ==
    /\ ec2_event \in AutoHealEvents
    /\ ec2_pc = "check"
    /\ ec2_calls = <<>>
    /\ ec2_response = NoResponse
    /\ utcnow = 0
    /\ cutoff = 0
    /\ snapshots = <<>>
    /\ snap_i = 0
    /\ IdleHandler /\ IdlePolls /\ IdleVotes /\ IdleDLQ /\ IdleScan

\* Lines 79-83: the state is tested, the instance id is not.
AutoHeal_Check ==
    /\ ec2_pc = "check"
    /\ IF ~ec2_event.mapping
       THEN /\ ec2_response' = Response("raised", "AttributeError", <<>>)
            /\ ec2_pc' = "done"
       ELSE IF ec2_event.state # "ALARM"
       THEN /\ ec2_response' = NoAction
            /\ ec2_pc' = "done"
       ELSE /\ ec2_pc' = "call"
            /\ UNCHANGED ec2_response
    /\ UNCHANGED <<ec2_event, ec2_calls, utcnow, cutoff, snapshots, snap_i>>
    /\ UNCHANGED notEC2

\* Lines 85-92: the call has the list of the one instance id, None when the
\* event has none.
AutoHeal_Call ==
    /\ ec2_pc = "call"
    /\ \E raised \in Outcomes :
         LET instance_id == ec2_event.instance_id IN
         /\ ec2_calls' =
              Append(ec2_calls, Call("reboot_instances", <<instance_id>>, raised))
         /\ ec2_response' =
              AfterCall(raised, "Successfully rebooted instance: ", instance_id)
    /\ ec2_pc' = "done"
    /\ UNCHANGED <<ec2_event, utcnow, cutoff, snapshots, snap_i>>
    /\ UNCHANGED notEC2

NextAutoHeal ==
    \/ AutoHeal_Check
    \/ AutoHeal_Call

SpecAutoHeal == InitAutoHeal /\ [][NextAutoHeal]_vars

InitScaling ==
    /\ ec2_event \in ScalingEvents
    /\ ec2_pc = "check"
    /\ ec2_calls = <<>>
    /\ ec2_response = NoResponse
    /\ utcnow = 0
    /\ cutoff = 0
    /\ snapshots = <<>>
    /\ snap_i = 0
    /\ IdleHandler /\ IdlePolls /\ IdleVotes /\ IdleDLQ /\ IdleScan

\* Lines 128-132.
Scaling_Check ==
    /\ ec2_pc = "check"
    /\ IF ~ec2_event.mapping
       THEN /\ ec2_response' = Response("raised", "AttributeError", <<>>)
            /\ ec2_pc' = "done"
       ELSE IF InvalidScaling(ec2_event.action, ec2_event.instance_id)
       THEN /\ ec2_response' = InvalidInput
            /\ ec2_pc' = "done"
       ELSE /\ ec2_pc' = "call"
            /\ UNCHANGED ec2_response
    /\ UNCHANGED <<ec2_event, ec2_calls, utcnow, cutoff, snapshots, snap_i>>
    /\ UNCHANGED notEC2

\* Lines 134-146.
Scaling_Call ==
    /\ ec2_pc = "call"
    /\ \E raised \in Outcomes :
         LET instance_id == ec2_event.instance_id IN
         IF ec2_event.action = "scale_out"
         THEN /\ ec2_calls' =
                   Append(ec2_calls,
                          Call("start_instances", <<instance_id>>, raised))
              /\ ec2_response' =
                   AfterCall(raised, "Successfully scaled out: started instance ",
                             instance_id)
         ELSE /\ ec2_calls' =
                   Append(ec2_calls,
                          Call("stop_instances", <<instance_id>>, raised))
              /\ ec2_response' =
                   AfterCall(raised, "Successfully scaled in: stopped instance ",
                             instance_id)
    /\ ec2_pc' = "done"
    /\ UNCHANGED <<ec2_event, utcnow, cutoff, snapshots, snap_i>>
    /\ UNCHANGED notEC2

NextScaling ==
    \/ Scaling_Check
    \/ Scaling_Call

SpecScaling == InitScaling /\ [][NextScaling]_vars

----------------------------------------------------------------------------
\* lambda_handler of src/lambda_sqs_election_polls.py.

MaxRecords == 3

\* A call of print: the line is written, or the write raises (sys.stdout is
\* closed or broken: OSError).
PrintOutcomes == {"ok", "raises"}

Candidates ==
    {"Candidate_A", "Candidate_B", "Candidate_C", "Candidate_D", "Candidate_E"}

\* The value of "vote" or "voter_id" in a parsed body: a name (a string), a
\* name print cannot write (a string with a lone surrogate, which json.loads
\* accepts and the encoder of the output stream refuses), a value that
\* cannot be hashed (a list), or no such key.
KeyMissing == "<no key>"
Unhashable == "<list>"
Unprintable == "<lone surrogate>"
OtherNames == {"Nobody", Unprintable}
VoteValues == Candidates \cup OtherNames \cup {Unhashable, KeyMissing}

\* A record: without the key "body" ("missing"), with a body that is not
\* JSON ("text"), that is JSON but no object ("scalar"), or that is an object.
PollRecords ==
    {[body |-> "object", voter_id |-> v, vote |-> x] :
        v \in {KeyMissing, "voter_1"}, x \in VoteValues}
    \cup {[body |-> k, voter_id |-> KeyMissing, vote |-> KeyMissing] :
            k \in {"missing", "text", "scalar"}}

PollEvents ==
    {[has_records |-> TRUE, Records |-> q] :
        q \in UNION {[1..n -> PollRecords] : n \in 0..MaxRecords}}
    \cup {[has_records |-> FALSE, Records |-> <<>>]}

\* Lines 24-26: the exception record["body"], json.loads and the two
\* subscripts raise, "none" when they do not.
ParseRecord(record) ==
    IF record.body = "missing" THEN "KeyError"
    ELSE IF record.body = "text" THEN "JSONDecodeError"
    ELSE IF record.body = "scalar" THEN "TypeError"
    ELSE IF record.voter_id = KeyMissing THEN "KeyError"
    ELSE IF record.vote = KeyMissing THEN "KeyError"
    ELSE "none"

\* Lines 29-32, p32 being what the stream does at the print of line 32:
\* vote in vote_counts hashes the vote; for a vote that is no candidate
\* print encodes the name and writes it.
CountException(vote, p32) ==
    IF vote = Unhashable THEN "TypeError"
    ELSE IF vote \in Candidates THEN "none"
    ELSE IF p32 = "raises" THEN "OSError"
    ELSE IF vote = Unprintable THEN "UnicodeEncodeError"
    ELSE "none"

\* Lines 29-30.
CountVote(counts, vote) ==
    IF vote \in DOMAIN counts THEN [counts EXCEPT ![vote] = @ + 1] ELSE counts

\* A line given to print: "invalid" (line 32), "counts" (line 35), "error"
\* (line 41).
Line(kind, arg) == [kind |-> kind, arg |-> arg]

notPolls == <<handlerVars, ec2Vars, votesVars, dlqVars, scanVars>>

InitPolls ==
    /\ poll_event \in PollEvents
    /\ poll_pc = "begin"
    /\ poll_i = 0
    /\ vote_counts = <<>>
    /\ poll_printed = <<>>
    /\ poll_response = NoPollResponse
    /\ IdleHandler /\ IdleEC2 /\ IdleVotes /\ IdleDLQ /\ IdleScan

\* Lines 40-42. The print of line 41 is outside any try: when it raises,
\* the exception leaves the handler and nothing is returned.
PollFail(exc) ==
    \E p41 \in PrintOutcomes :
        IF p41 = "ok"
        THEN /\ poll_printed' = Append(poll_printed, Line("error", exc))
             /\ poll_response' =
                  [statusCode |-> 500, body |-> "Error processing votes."]
             /\ poll_pc' = "done"
        ELSE /\ poll_pc' = "raised"
             /\ UNCHANGED <<poll_printed, poll_response>>

\* Lines 13-22: the counts, and event["Records"].
Polls_Begin ==
    /\ poll_pc = "begin"
    /\ vote_counts' = [c \in Candidates |-> 0]
    /\ IF poll_event.has_records
       THEN /\ poll_i' = 1
            /\ poll_pc' = "loop"
            /\ UNCHANGED <<poll_printed, poll_response>>
       ELSE /\ PollFail("KeyError")
            /\ UNCHANGED poll_i
    /\ UNCHANGED poll_event
    /\ UNCHANGED notPolls

\* Lines 22-32 for the record the loop is at.
Polls_Record ==
    /\ poll_pc = "loop"
    /\ poll_i <= Len(poll_event.Records)
    /\ \E p32 \in PrintOutcomes :
         LET record == poll_event.Records[poll_i]
             exc == IF ParseRecord(record) # "none" THEN ParseRecord(record)
                    ELSE CountException(record.vote, p32)
         IN IF exc # "none"
            THEN /\ PollFail(exc)
                 /\ UNCHANGED <<poll_i, vote_counts>>
            ELSE /\ vote_counts' = CountVote(vote_counts, record.vote)
                 /\ poll_printed' =
                      IF record.vote \in DOMAIN vote_counts THEN poll_printed
                      ELSE Append(poll_printed,
                                  Line("invalid", <<record.voter_id, record.vote>>))
                 /\ poll_i' = poll_i + 1
                 /\ UNCHANGED <<poll_pc, poll_response>>
    /\ UNCHANGED poll_event
    /\ UNCHANGED notPolls

\* Lines 35-38: the print of line 35 is inside the try.
Polls_Finish ==
    /\ poll_pc = "loop"
    /\ poll_i > Len(poll_event.Records)
    /\ \E p35 \in PrintOutcomes :
         IF p35 = "ok"
         THEN /\ poll_printed' = Append(poll_printed, Line("counts", vote_counts))
              /\ poll_response' =
                   [statusCode |-> 200, body |-> "Votes processed successfully."]
              /\ poll_pc' = "done"
         ELSE PollFail("OSError")
    /\ UNCHANGED <<poll_event, poll_i, vote_counts>>
    /\ UNCHANGED notPolls

NextPolls ==
    \/ Polls_Begin
    \/ Polls_Record
    \/ Polls_Finish

SpecPolls == InitPolls /\ [][NextPolls]_vars

----------------------------------------------------------------------------
\* main of src/boto3_sqs.py from the sending of the votes on (lines 287-318)
\* and the main queue it writes and reads, and SQSManager.purge_queue. A
\* message of the queue is visible, in flight (received and not deleted:
\* invisible until the visibility timeout of line 259 ends), deleted, or
\* moved to the dead-letter queue; the queue does what the module docstring
\* says of a standard queue (at-least-once delivery, lines 5-7), of
\* VisibilityTimeout and of RedrivePolicy (lines 21-23 and 51-57).

MaxMessages == 2
MaxReply == 2

\* max_receive_count of line 270, max_number_of_messages of line 303.
max_receive_count == 5
max_number_of_messages == 10

Msgs == 1..MaxMessages

\* A body json.loads accepts ("vote") or refuses ("text").
Bodies == {"vote", "text"}

\* A call of the client returns, raises ClientError or raises another
\* exception.
ApiOutcomes == {"ok", "ClientError", "raises"}

\* delete_message (lines 158-165): the call deletes the message and returns;
\* or raises ClientError, caught at line 163 (None is returned and the
\* message is not deleted); or raises another exception, before the queue
\* has deleted the message or after it has (the reply of the queue was
\* lost).
DeleteOutcomes == {"ok", "ClientError", "raises", "deleted, raises"}

\* Lines 309-316 for one message, p311 and p316 being what the prints of
\* those lines do: what happens to the message, in order. "raised" is the
\* exception the except of line 317 catches; the print of line 316 is
\* reached whatever delete_message returned.
process_message(body, p311, del, p316) ==
    IF body = "text" THEN <<"raised">>
    ELSE IF p311 = "raises" \/ del = "raises" THEN <<"parsed", "raised">>
    ELSE IF del = "deleted, raises" THEN <<"parsed", "deleted", "raised">>
    ELSE <<"parsed", IF del = "ok" THEN "deleted" ELSE "not deleted">>
         \o (IF p316 = "raises" THEN <<"raised">> ELSE <<>>)

Visible == {m \in Msgs : queue[m].at = "visible"}

\* The messages main has still to send, and the messages a copy of which
\* the queue can give again after their deletion.
Unsent == {m \in Msgs : queue[m].at = "unsent"}
Stale == {m \in Msgs : queue[m].at = "deleted"}

\* What a receive can hold: up to MaxReply messages (and up to
\* max_number_of_messages), a message more than once.
Replies(S) ==
    UNION {[1..n -> S] : n \in 0..(IF MaxReply < max_number_of_messages
                                   THEN MaxReply ELSE max_number_of_messages)}

notVotes == <<handlerVars, ec2Vars, pollVars, dlqVars, scanVars>>

\* main before line 290. The queue holds what it held before (create_queue
\* gives the queue of that name when there is one): votes and bodies that
\* are not JSON; the other messages are votes main has still to send. main
\* ignores what create_dead_letter_queue returns, so the policy is set or
\* not.
InitVotes ==
    /\ queue \in [Msgs -> {[body |-> b, at |-> "visible", receives |-> 0] :
                             b \in Bodies}
                          \cup {[body |-> "vote", at |-> "unsent", receives |-> 0]}]
    /\ redrive \in BOOLEAN
    /\ loop_pc = "send"
    /\ messages = <<>>
    /\ msg_i = 1
    /\ handled = <<>>
    /\ sqs_response = "none"
    /\ IdleHandler /\ IdleEC2 /\ IdlePolls /\ IdleDLQ /\ IdleScan

\* Lines 290-300 with send_message (lines 116-126), for the next vote: the
\* message is in the queue, or send_message caught ClientError and returned
\* None (the vote is not in the queue, and line 297 prints "Sent vote" all
\* the same), or another exception leaves main; the print of line 297 can
\* raise, and main ends with the vote sent. After the last vote line 300
\* prints and the loop of line 301 begins.
Send ==
    /\ loop_pc = "send"
    /\ IF Unsent = {}
       THEN /\ \E p300 \in PrintOutcomes :
                 loop_pc' = IF p300 = "ok" THEN "receive" ELSE "raised"
            /\ UNCHANGED <<queue, sqs_response>>
       ELSE LET m == CHOOSE x \in Unsent : \A y \in Unsent : x <= y IN
            \E out \in ApiOutcomes, p297 \in PrintOutcomes :
              /\ queue' = [queue EXCEPT
                             ![m].at = IF out = "ok" THEN "visible" ELSE "refused"]
              /\ sqs_response' = IF out = "ok" THEN "response"
                                 ELSE IF out = "ClientError" THEN "None"
                                 ELSE sqs_response
              /\ loop_pc' = IF out = "raises" \/ p297 = "raises" THEN "raised"
                            ELSE "send"
    /\ UNCHANGED <<redrive, messages, msg_i, handled>>
    /\ UNCHANGED notVotes

\* Lines 302-307 with receive_messages (lines 139-148). receive_message
\* raises an exception that is no ClientError and main ends with it; or it
\* raises ClientError, or gives a reply without messages, and [] is
\* returned; or the queue gives visible messages, some when there are any: a
\* message received max_receive_count times already goes to the dead-letter
\* queue when the policy is set, the others are delivered, counted and in
\* flight. Without a policy the count has no effect and is kept up to
\* max_receive_count. The reply can hold a message more than once, and a
\* copy of a message that was deleted. With no message line 306 prints and
\* the loop is left; when that print raises, main ends with the exception.
Receive ==
    /\ loop_pc = "receive"
    /\ \/ /\ loop_pc' = "raised"
          /\ UNCHANGED <<queue, messages, msg_i>>
       \/ /\ messages' = <<>>
          /\ msg_i' = 1
          /\ \E p306 \in PrintOutcomes :
               loop_pc' = IF p306 = "ok" THEN "exited" ELSE "raised"
          /\ UNCHANGED queue
       \/ \E S \in SUBSET Visible :
            /\ Visible # {} => S # {}
            /\ LET dead == {m \in S : redrive /\ queue[m].receives >= max_receive_count}
                   got == S \ dead
               IN /\ messages' \in
                       {q \in Replies(got \cup Stale) :
                           got \subseteq {q[k] : k \in DOMAIN q}}
                  /\ queue' =
                       [m \in Msgs |->
                          IF m \in dead THEN [queue[m] EXCEPT !.at = "dlq"]
                          ELSE IF m \in got
                          THEN [queue[m] EXCEPT
                                  !.at = "inflight",
                                  !.receives =
                                     IF @ < max_receive_count THEN @ + 1 ELSE @]
                          ELSE queue[m]]
            /\ msg_i' = 1
            /\ \E p306 \in PrintOutcomes :
                 loop_pc' = IF messages' # <<>> THEN "process"
                            ELSE IF p306 = "ok" THEN "exited" ELSE "raised"
    /\ handled' = <<>>
    /\ UNCHANGED <<redrive, sqs_response>>
    /\ UNCHANGED notVotes

\* Lines 308-318 for the message the loop is at, the element msg_i of the
\* receive. When the try raised, line 318 prints the error and the loop
\* takes the next element; when that print raises too, the exception
\* leaves main.
ProcessMessage ==
    /\ loop_pc = "process"
    /\ \E p311, p316, p318 \in PrintOutcomes, del \in DeleteOutcomes :
         LET m == messages[msg_i]
             what == process_message(queue[m].body, p311, del, p316)
         IN /\ handled' = handled \o [k \in 1..Len(what) |->
                                          [j |-> msg_i, m |-> m, what |-> what[k]]]
            /\ queue' = IF \E k \in 1..Len(what) : what[k] = "deleted"
                        THEN [queue EXCEPT ![m].at = "deleted"]
                        ELSE queue
            /\ IF what[Len(what)] = "raised" /\ p318 = "raises"
               THEN /\ loop_pc' = "raised"
                    /\ msg_i' = msg_i
               ELSE /\ loop_pc' = IF msg_i = Len(messages) THEN "receive"
                                  ELSE "process"
                    /\ msg_i' = msg_i + 1
    /\ UNCHANGED <<redrive, messages, sqs_response>>
    /\ UNCHANGED notVotes

\* The visibility timeout of a message in flight ends.
BecomeVisible(m) ==
    /\ queue[m].at = "inflight"
    /\ queue' = [queue EXCEPT ![m].at = "visible"]
    /\ UNCHANGED <<redrive, loop_pc, messages, msg_i, handled, sqs_response>>
    /\ UNCHANGED notVotes

NextVotes ==
    \/ Send
    \/ Receive
    \/ ProcessMessage
    \/ \E m \in Msgs : BecomeVisible(m)

SpecVotes == InitVotes /\ [][NextVotes]_vars

\* The program runs while it can, and a visibility timeout that has started
\* ends.
FairVotes ==
    /\ SpecVotes
    /\ WF_vars(Send)
    /\ WF_vars(Receive)
    /\ WF_vars(ProcessMessage)
    /\ \A m \in Msgs : WF_vars(BecomeVisible(m))

\* SQSManager.purge_queue (lines 226-238) called on a queue that holds
\* messages, visible or in flight.
InitPurge ==
    /\ queue \in [Msgs -> {[body |-> b, at |-> a, receives |-> 0] :
                             b \in Bodies, a \in {"visible", "inflight"}}]
    /\ redrive \in BOOLEAN
    /\ loop_pc = "purge"
    /\ messages = <<>>
    /\ msg_i = 1
    /\ handled = <<>>
    /\ sqs_response = "none"
    /\ IdleHandler /\ IdleEC2 /\ IdlePolls /\ IdleDLQ /\ IdleScan

\* Lines 233-238: the queue is emptied and the response returned, or
\* ClientError is caught and None returned, or another exception leaves
\* the method.
PurgeQueue ==
    /\ loop_pc = "purge"
    /\ \E out \in ApiOutcomes :
         /\ queue' = IF out = "ok"
                     THEN [m \in Msgs |-> [queue[m] EXCEPT !.at = "deleted"]]
                     ELSE queue
         /\ sqs_response' = IF out = "ok" THEN "response"
                            ELSE IF out = "ClientError" THEN "None"
                            ELSE sqs_response
         /\ loop_pc' = IF out = "raises" THEN "raised" ELSE "returned"
    /\ UNCHANGED <<redrive, messages, msg_i, handled>>
    /\ UNCHANGED notVotes

SpecPurge == InitPurge /\ [][PurgeQueue]_vars

----------------------------------------------------------------------------
\* SQSManager.create_dead_letter_queue of src/boto3_sqs.py (lines 184-208),
\* with create_queue, get_queue_attributes and set_queue_attributes: each
\* catches ClientError, prints it and returns None or {}; another exception
\* leaves the method.

MaxReceiveArg == 3

\* None, and the URL and the ARN the service gives for a queue name.
None == <<>>
Url(name) == <<"https://sqs", name>>
Arn(name) == <<"arn:aws:sqs", name>>

\* str(max_receive_count)
DecimalString(n) == <<"str", n>>

\* Lines 201-204, as json.dumps writes it; and no RedrivePolicy.
RedrivePolicy(arn, n) ==
    [deadLetterTargetArn |-> arn, maxReceiveCount |-> DecimalString(n)]
NoPolicy == [deadLetterTargetArn |-> None, maxReceiveCount |-> None]

DlqNames == {"PresidentialElectionPollsDLQ", "OrdersDLQ"}
PriorPolicies ==
    {NoPolicy} \cup {RedrivePolicy(Arn("OldDLQ"), n) : n \in {1, MaxReceiveArg}}

notDLQ == <<handlerVars, ec2Vars, pollVars, votesVars, scanVars>>

InitDLQ ==
    /\ dlq_args \in
         {[dlq_name |-> d, max_receive_count |-> n,
           source_before |-> [RedrivePolicy |-> p]] :
             d \in DlqNames, n \in 1..MaxReceiveArg, p \in PriorPolicies}
    /\ source_attributes = dlq_args.source_before
    /\ dlq_pc = "create"
    /\ dlq_url = None
    /\ dlq_arn = None
    /\ dlq_result = None
    /\ IdleHandler /\ IdleEC2 /\ IdlePolls /\ IdleVotes /\ IdleScan

\* Lines 193-195 with create_queue (lines 81-88).
DLQ_Create ==
    /\ dlq_pc = "create"
    /\ \E out \in ApiOutcomes :
         /\ dlq_url' = IF out = "ok" THEN Url(dlq_args.dlq_name) ELSE None
         /\ dlq_pc' = IF out = "ok" THEN "get_arn"
                      ELSE IF out = "ClientError" THEN "done" ELSE "raised"
    /\ UNCHANGED <<dlq_args, dlq_arn, source_attributes, dlq_result>>
    /\ UNCHANGED notDLQ

\* Lines 197-199 with get_queue_attributes (lines 217-224).
DLQ_GetArn ==
    /\ dlq_pc = "get_arn"
    /\ \E out \in ApiOutcomes :
         /\ dlq_arn' = IF out = "ok" THEN Arn(dlq_args.dlq_name) ELSE None
         /\ dlq_pc' = IF out = "ok" THEN "set_policy"
                      ELSE IF out = "ClientError" THEN "done" ELSE "raised"
    /\ UNCHANGED <<dlq_args, dlq_url, source_attributes, dlq_result>>
    /\ UNCHANGED notDLQ

\* Lines 201-208 with set_queue_attributes (lines 175-182): what it returns
\* is not looked at.
DLQ_SetPolicy ==
    /\ dlq_pc = "set_policy"
    /\ \E out \in ApiOutcomes :
         /\ source_attributes' =
              IF out = "ok"
              THEN [source_attributes EXCEPT
                      !.RedrivePolicy =
                         RedrivePolicy(dlq_arn, dlq_args.max_receive_count)]
              ELSE source_attributes
         /\ dlq_result' = IF out = "raises" THEN None ELSE dlq_url
         /\ dlq_pc' = IF out = "raises" THEN "raised" ELSE "done"
    /\ UNCHANGED <<dlq_args, dlq_url, dlq_arn>>
    /\ UNCHANGED notDLQ

NextDLQ ==
    \/ DLQ_Create
    \/ DLQ_GetArn
    \/ DLQ_SetPolicy

SpecDLQ == InitDLQ /\ [][NextDLQ]_vars

----------------------------------------------------------------------------
\* scan_directory and process_file of
\* src/lambda_s3_download_process_upload.py (the local version, lines 108-202).

MaxFiles == 2

FileNames == 1..MaxFiles

\* The extension of a name, lowered (line 120): one read_delimited_file
\* reads with a fixed delimiter, .txt, or another one.
Extensions == {".csv", ".txt", ".bin"}

\* What a name of the directory can be: no entry, a file of delimited text
\* (or an empty one read with a fixed delimiter), a .txt file whose delimiter
\* csv.Sniffer cannot determine (an empty one), a file of another extension,
\* a subdirectory.
EntryKinds == {"absent", "delimited", "undetectable", "unsupported", "dir"}
KindsOf(ext) ==
    {"absent", "dir"} \cup
    (IF ext = ".csv" THEN {"delimited"}
     ELSE IF ext = ".txt" THEN {"delimited", "undetectable"}
     ELSE {"unsupported"})

\* Line 184: os.listdir gives the names that have an entry.
listdir(d) == {n \in DOMAIN d : d[n] # "absent"}

\* Line 189: os.path.isfile.
isfile(d, n) == d[n] \in {"delimited", "undetectable", "unsupported"}

\* Writing the JSON file (lines 138-139) succeeds, or open raises (no
\* destination directory).
WriteOutcomes == {"ok", "raises"}

\* process_file (lines 119-143) on a name of extension ext whose entry is
\* kind when the file is opened: another extension is a warning and a
\* return, before anything is opened; open (line 160) raises for a name that
\* has no entry or is a directory; csv.Error of line 168 is not caught; nor
\* is an exception of the writing.
process_file(ext, kind, write) ==
    IF ext \notin {".csv", ".txt"} THEN "unsupported"
    ELSE IF kind # "delimited" THEN "raises"
    ELSE IF write = "ok" THEN "converted"
    ELSE "raises"

notScan == <<handlerVars, ec2Vars, pollVars, votesVars, dlqVars>>

\* Line 181, on a directory with any entries.
InitScan ==
    /\ extension \in [FileNames -> Extensions]
    /\ directory \in {d \in [FileNames -> EntryKinds] :
                        \A n \in FileNames : d[n] \in KindsOf(extension[n])}
    /\ processed_files = {}
    /\ new_files = <<>>
    /\ scan_i = 1
    /\ scan_pc = "listdir"
    /\ passed = <<>>
    /\ listed = {}
    /\ IdleHandler /\ IdleEC2 /\ IdlePolls /\ IdleVotes /\ IdleDLQ

\* Lines 184-185; the loop of line 187 takes the set in any order.
Scan_List ==
    /\ scan_pc = "listdir"
    /\ new_files' \in Orders(listdir(directory) \ processed_files)
    /\ listed' = {n \in listdir(directory) \ processed_files :
                    isfile(directory, n)}
    /\ scan_i' = 1
    /\ scan_pc' = "visit"
    /\ UNCHANGED <<extension, directory, processed_files, passed>>
    /\ UNCHANGED notScan

\* Lines 187-189: the next name of the loop and the test of line 189, or the
\* end of the loop.
Scan_Visit ==
    /\ scan_pc = "visit"
    /\ IF scan_i > Len(new_files)
       THEN /\ scan_pc' = "update"
            /\ UNCHANGED scan_i
       ELSE IF isfile(directory, new_files[scan_i])
       THEN /\ scan_pc' = "process"
            /\ UNCHANGED scan_i
       ELSE /\ scan_i' = scan_i + 1
            /\ UNCHANGED scan_pc
    /\ UNCHANGED <<extension, directory, processed_files, new_files, passed,
                   listed>>
    /\ UNCHANGED notScan

\* Lines 190-191: process_file on the name that passed the test, with the
\* entry the name has by now.
Scan_Process ==
    /\ scan_pc = "process"
    /\ \E write \in WriteOutcomes :
         LET file_name == new_files[scan_i]
             r == process_file(extension[file_name], directory[file_name], write)
         IN  /\ passed' = Append(passed, <<file_name, r>>)
             /\ scan_pc' = IF r = "raises" THEN "raised" ELSE "visit"
    /\ scan_i' = scan_i + 1
    /\ UNCHANGED <<extension, directory, processed_files, new_files, listed>>
    /\ UNCHANGED notScan

\* Lines 193-194.
Scan_Sleep ==
    /\ scan_pc = "update"
    /\ processed_files' = processed_files \cup {new_files[k] : k \in DOMAIN new_files}
    /\ scan_pc' = "listdir"
    /\ UNCHANGED <<extension, directory, new_files, scan_i, passed, listed>>
    /\ UNCHANGED notScan

\* Another process adds, removes or replaces an entry of the directory while
\* scan_directory runs, between any two of its steps.
DirectoryChanges ==
    /\ scan_pc \in {"listdir", "visit", "process", "update"}
    /\ \E n \in FileNames, k \in EntryKinds :
         /\ k \in KindsOf(extension[n])
         /\ k # directory[n]
         /\ directory' = [directory EXCEPT ![n] = k]
         /\ listed' = listed \ {n}
    /\ UNCHANGED <<extension, processed_files, new_files, scan_i, scan_pc,
                   passed>>
    /\ UNCHANGED notScan

NextScan ==
    \/ Scan_List
    \/ Scan_Visit
    \/ Scan_Process
    \/ Scan_Sleep
    \/ DirectoryChanges

SpecScan == InitScan /\ [][NextScan]_vars

----------------------------------------------------------------------------
\* Vocabulary of the properties.

Range(q) == {q[k] : k \in DOMAIN q}
Occurrences(x, q) == Cardinality({k \in DOMAIN q : q[k] = x})
Positions == 1..Len(batch)

\* Line 106 returned a list: the event has "events" and no element made
\* validate_event raise.
AllMappings == event.has_events /\ \A i \in Positions : batch[i].mapping
ValidationReturned == pc # "validate" /\ AllMappings

\* Line 111 returned the groups.
Grouped ==
    \/ pc = "print"
    \/ pc = "done" /\ result = "events processed"
    \/ pc = "done" /\ outcome # <<>>

Accepted == Range(events_validate)
Rejected == Positions \ Accepted
Valid(e) == validate_event(e).exc = "none" /\ validate_event(e).value

\* The part of a name before its first separator, the whole name without one.
HasSep(s) == \E k \in 1..Len(s) : s[k] = Sep
FirstSep(s) == CHOOSE k \in 1..Len(s) : s[k] = Sep /\ \A m \in 1..(k - 1) : s[m] # Sep
CategoryOf(s) == IF HasSep(s) THEN SubSeq(s, 1, FirstSep(s) - 1) ELSE s

\* The groups that hold the record at position r.
GroupsOf(r) == {j \in 1..Len(events_groups) : r \in Range(events_groups[j].events)}

\* The first accepted record of the type of group j.
FirstOfType(ty) ==
    CHOOSE r \in Range(events_with_type) :
        /\ event.events[r].event_type = ty
        /\ \A q \in Range(events_with_type) :
              event.events[q].event_type = ty => r <= q

----------------------------------------------------------------------------
\* C1. Failure isolation: when the handling of one group fails, every other
\* group is still dispatched and gets its own outcome: after the batch there
\* is one outcome per group and no group is left pending.
C1_FailureIsolation ==
    (pc = "done" /\ Grouped) =>
        /\ \A j \in 1..Len(outcome) : outcome[j] \in {"Handled", "Unrouted", "Failed"}
        /\ Len(outcome) = Len(events_groups)

\* C2. Validation partitions the batch: every record is either accepted
\* exactly once or rejected (it fails the test and is not accepted), and the
\* number of accepted records plus the number of rejected ones is the batch
\* size.
C2_ValidationPartitions ==
    ValidationReturned =>
        /\ \A i \in Positions :
              Occurrences(i, events_validate) + (IF Valid(batch[i]) THEN 0 ELSE 1) = 1
        /\ Accepted \subseteq Positions
        /\ Len(events_validate) + Cardinality({i \in Positions : ~Valid(batch[i])})
              = Len(batch)

\* Validation has accepted one record and rejected another of the same batch.
C2_Witness ==
    /\ ValidationReturned
    /\ Accepted # {}
    /\ Rejected # {}

\* C3 as stated: a record is accepted iff it carries the keys name and id.
C3_AcceptedIffNameAndId ==
    ValidationReturned =>
        \A i \in Positions :
            i \in Accepted <=> (HasKey(batch[i], "name") /\ HasKey(batch[i], "id"))

\* C3, amended: a record is accepted iff it carries the keys name and
\* event_id, whatever their values (an empty name, a name that is not a
\* string) and whatever other keys it has.
C3_AcceptedIffNameAndEventId ==
    ValidationReturned =>
        \A i \in Positions :
            i \in Accepted <=>
                (HasKey(batch[i], "name") /\ HasKey(batch[i], "event_id"))

\* Validation has accepted a record with an empty name and the extra key id,
\* and rejected a record that has name and id but no event_id.
C3_Witness ==
    /\ ValidationReturned
    /\ \E i \in Accepted : batch[i].name = Str(<<>>) /\ HasKey(batch[i], "id")
    /\ \E i \in Rejected :
          /\ HasKey(batch[i], "name") /\ HasKey(batch[i], "id")
          /\ ~HasKey(batch[i], "event_id")

\* Classification has decorated record i: it is among the records add_type
\* returned, or its event_type is not the one it came with.
Decorated(i) ==
    \/ i \in Range(events_with_type)
    \/ event.events[i].event_type # batch[i].event_type

\* C4. Every record that classification has decorated has a string name and
\* carries as event_type the part of the name before the first ":", or the
\* whole name when it has no ":"; once classification has returned, every
\* accepted record is decorated.
C4_CategoryIsPrefix ==
    /\ \A i \in 1..Len(event.events) :
          Decorated(i) =>
              /\ event.events[i].name.t = "str"
              /\ event.events[i].event_type = Str(CategoryOf(event.events[i].name.s))
    /\ pc \in {"types", "group", "print"} => events_with_type = events_validate

\* Classification has decorated a name with two separators and a name
\* without separator.
C4_Witness ==
    /\ pc = "types"
    /\ \E i \in Range(events_with_type) :
          /\ event.events[i].name = Str(<<":", ":">>)
          /\ event.events[i].event_type = Str(<<>>)
    /\ \E i \in Range(events_with_type) :
          /\ event.events[i].name = Str(<<"u", "u">>)
          /\ event.events[i].event_type = Str(<<"u", "u">>)
    /\ \E i \in Range(events_with_type) :
          /\ event.events[i].name = Str(<<"u", ":">>)
          /\ event.events[i].event_type = Str(<<"u">>)

\* C5. After grouping, every accepted record is in exactly one group, once,
\* and that group has the record's type; a group holds only accepted records
\* of its own type.
C5_OneGroupPerRecord ==
    Grouped =>
        /\ \A r \in Range(events_with_type) :
              /\ Cardinality(GroupsOf(r)) = 1
              /\ \A j \in GroupsOf(r) :
                    /\ events_groups[j].event_type = event.events[r].event_type
                    /\ Occurrences(r, events_groups[j].events) = 1
        /\ \A j \in 1..Len(events_groups) :
              \A r \in Range(events_groups[j].events) :
                  /\ r \in Range(events_with_type)
                  /\ event.events[r].event_type = events_groups[j].event_type

\* Grouping has built two groups, one of them with two records.
C5_Witness ==
    /\ Grouped
    /\ Len(events_groups) = 2
    /\ \E j \in 1..Len(events_groups) : Len(events_groups[j].events) = 2

\* C6. Within every group the records are in batch order: a record that
\* comes earlier in the group comes earlier in the batch.
C6_GroupKeepsBatchOrder ==
    Grouped =>
        \A j \in 1..Len(events_groups) :
            \A a, b \in 1..Len(events_groups[j].events) :
                a < b => events_groups[j].events[a] < events_groups[j].events[b]

\* A group holds the first and the third record of the batch, the second
\* record being in another group.
C6_Witness ==
    /\ Grouped
    /\ \E j \in 1..Len(events_groups) : events_groups[j].events = <<1, 3>>
    /\ \E j \in 1..Len(events_groups) : events_groups[j].events = <<2>>

\* C7. The groups are in first-seen order of their types: one group per
\* type, and a group comes before another exactly when the first record of
\* its type precedes the first record of the other's type in the batch.
C7_FirstSeenOrder ==
    Grouped =>
        /\ Len(events_groups) =
             Cardinality({event.events[r].event_type : r \in Range(events_with_type)})
        /\ \A a, b \in 1..Len(events_groups) :
              a < b <=> FirstOfType(events_groups[a].event_type)
                          < FirstOfType(events_groups[b].event_type)

\* The reasons of the specification's validator.
ReasonFor(e) ==
    IF ~HasKey(e, "name") THEN "missing field: name" ELSE "missing field: id"

\* C8 as stated: every rejected record is reported with the reason that
\* names its first missing key, name before id.
C8_RejectedCarryReason ==
    (pc = "done" /\ result = "events processed") =>
        \A i \in Rejected : ReasonFor(batch[i]) \in Range(log)

\* C8, amended: every record validation excludes keeps its content, and no
\* reason is given per record: the one warning "Some events failed validation
\* and were excluded." is logged once for the batch when some record was
\* excluded, whichever key is missing; a batch of excluded records only
\* yields no accepted record and no group, and the handler returns "events
\* processed".
C8_ExcludedWithOneWarning ==
    ValidationReturned =>
        /\ \A i \in Rejected : event.events[i] = batch[i]
        /\ Occurrences(WarnExcluded, log) = (IF Rejected # {} THEN 1 ELSE 0)
        /\ Range(log) \subseteq
             {WarnExcluded, ErrorLog("KeyError"), ErrorLog("AttributeError"),
              MissingKeyInEvent}
        /\ (pc = "done" /\ Rejected = Positions) =>
              /\ events_validate = <<>>
              /\ events_groups = <<>>
              /\ result = "events processed"

\* The handler has returned for a batch of two records, one missing name and
\* one missing event_id, and both were excluded.
C8_Witness ==
    /\ pc = "done"
    /\ ValidationReturned
    /\ Len(batch) = 2
    /\ Rejected = Positions
    /\ ~HasKey(batch[1], "name")
    /\ HasKey(batch[2], "name") /\ ~HasKey(batch[2], "event_id")

\* C9. An element that is not a mapping is rejected as "malformed record"
\* without any exception leaving validation, and the other records of the
\* batch are still validated, classified and grouped.
C9_MalformedIsRejected ==
    (pc = "done" /\ event.has_events /\ \E i \in Positions : ~batch[i].mapping) =>
        /\ result # ErrorResult("AttributeError")
        /\ "malformed record" \in Range(log)
        /\ \A i \in Positions :
              (batch[i].mapping /\ Valid(batch[i]) /\ batch[i].name.t = "str") =>
                  /\ i \in Accepted
                  /\ i \in Range(events_with_type)
                  /\ GroupsOf(i) # {}

\* C10. An accepted record whose name is not a string is moved to the
\* rejected records with reason "non-string name"; the batch is not aborted
\* and the remaining accepted records are still classified and grouped.
C10_NonStringNameIsRejected ==
    (pc = "done" /\ ValidationReturned
       /\ \E i \in Accepted : batch[i].name.t # "str") =>
        /\ "non-string name" \in Range(log)
        /\ \A i \in Accepted :
              IF batch[i].name.t # "str"
              THEN i \notin Range(events_with_type)
              ELSE i \in Range(events_with_type) /\ GroupsOf(i) # {}

----------------------------------------------------------------------------
\* The values lambda_handler can return.
Processed == "events processed"
Returns == {Processed, ErrorResult("KeyError"), ErrorResult("AttributeError")}

\* C11 as stated: the value returned tells the caller which records were
\* rejected. The value returned is a text that holds no record, and a batch
\* without rejected record returns "events processed"; the caller can tell
\* the rejected records from it only if "events processed" always means that
\* none was rejected.
C11_ReturnTellsRejected ==
    (pc = "done" /\ result = Processed) => Rejected = {}

\* C11, amended: the value returned does not tell which records were
\* rejected: it is "events processed" or one of the two error texts, whatever
\* the rejected records; that records were excluded is reported only in the
\* log, by the warning that is there exactly when validation excluded at
\* least one record, and by nothing else about validation.
C11_RejectedOnlyWarnedInLog ==
    /\ result \in Returns \cup {"none"}
    /\ ValidationReturned =>
          /\ (WarnExcluded \in Range(log)) <=> (Rejected # {})
          /\ pc = "classify" => Range(log) \subseteq {WarnExcluded}

\* The handler has returned "events processed" for a batch of which it
\* accepted one record and rejected two.
C11_Witness ==
    /\ pc = "done"
    /\ result = Processed
    /\ Cardinality(Accepted) = 1
    /\ Cardinality(Rejected) = 2
    /\ log = <<WarnExcluded>>

\* The batches C12 is about: events as in invalid_event, dicts whose name is
\* a string when they have one, some of them incomplete.
Incomplete(e) == e.mapping /\ ~(HasKey(e, "name") /\ HasKey(e, "event_id"))
EventsOnly ==
    /\ event.has_events
    /\ \A i \in Positions :
          batch[i].mapping /\ batch[i].name.t \in {"str", "absent"}
Complete == {i \in Positions : ~Incomplete(batch[i])}

\* The complete records, in batch order.
RECURSIVE InOrder(_, _)
InOrder(S, i) ==
    IF i > Len(batch) THEN <<>>
    ELSE IF i \in S THEN <<i>> \o InOrder(S, i + 1) ELSE InOrder(S, i + 1)

\* C12. A batch with incomplete events is still processed: validation
\* excludes exactly the incomplete records, all the complete ones are
\* classified and grouped by type, and the handler returns "events
\* processed" (it returns an error only when print raised).
C12_IncompleteEventsExcluded ==
    EventsOnly =>
        /\ pc \notin {"validate"} => events_validate = InOrder(Complete, 1)
        /\ pc \in {"types", "group", "print"} =>
              events_with_type = InOrder(Complete, 1)
        /\ Grouped =>
              /\ \A i \in Complete : GroupsOf(i) # {}
              /\ \A i \in Positions \ Complete : GroupsOf(i) = {}
        /\ pc = "done" =>
              \/ result = Processed
              \/ \E j \in 1..Len(outcome) : outcome[j] = "Failed"

\* The handler has returned "events processed" for a batch whose second
\* record is incomplete and whose first and third are complete and grouped.
C12_Witness ==
    /\ EventsOnly
    /\ pc = "done"
    /\ result = Processed
    /\ Len(batch) = 3
    /\ Complete = {1, 3}
    /\ GroupsOf(1) # {} /\ GroupsOf(3) # {}

NoneFailed == \A j \in 1..Len(outcome) : outcome[j] # "Failed"

\* C13. The code registers no handler, so every group is without one: a
\* group that print has shown is Unrouted and keeps its records, and a batch
\* whose groups were all shown ends without error; a batch of two accepted
\* records of two types gives two groups, one per type, each Unrouted and
\* each with one record.
C13_UnroutedKeepsRecords ==
    /\ Grouped =>
          /\ events_groups =
               add_events_to_group(events_with_type, event_types, event.events)
          /\ \A j \in 1..Len(outcome) :
                outcome[j] = "Unrouted" =>
                    /\ j \in Range(printed)
                    /\ events_groups[j].events # <<>>
    /\ (pc = "done" /\ Grouped /\ NoneFailed) =>
          /\ result = Processed
          /\ \A j \in 1..Len(outcome) : outcome[j] = "Unrouted"
    /\ (pc = "done" /\ result = Processed /\ Len(batch) = 2
          /\ Accepted = {1, 2}
          /\ event.events[1].event_type # event.events[2].event_type) =>
          /\ Len(events_groups) = 2
          /\ {events_groups[j].event_type : j \in 1..2} =
               {event.events[1].event_type, event.events[2].event_type}
          /\ \A j \in 1..2 :
                Len(events_groups[j].events) = 1 /\ outcome[j] = "Unrouted"

\* The handler has returned for a batch of two records of the types "u" and
\* "uu": two groups, both Unrouted.
C13_Witness ==
    /\ pc = "done"
    /\ result = Processed
    /\ Len(batch) = 2
    /\ batch[1].name = Str(<<"u", ":">>)
    /\ batch[2].name = Str(<<"u", "u">>)
    /\ outcome = <<"Unrouted", "Unrouted">>

\* C14. A group leaves Pending once, for Unrouted or Failed (Handled never
\* occurs), and then keeps its outcome; print is called at most once per
\* group, a group whose print raised is not printed again.
C14_OutcomeIsTerminal ==
    [][/\ \A j \in DOMAIN outcome :
             outcome[j] # "Pending" =>
                 j \in DOMAIN outcome' /\ outcome'[j] = outcome[j]
       /\ \A j \in DOMAIN outcome' :
             /\ outcome'[j] \in {"Pending", "Handled", "Unrouted", "Failed"}
             /\ Occurrences(j, printed') <= 1
             /\ outcome'[j] # "Pending" <=> j \in Range(printed')
       /\ Range(printed') \subseteq DOMAIN outcome']_vars

\* The handler has returned after printing one group and failing on the
\* next; a third group is left pending.
C14_Witness ==
    /\ pc = "done"
    /\ outcome = <<"Unrouted", "Failed", "Pending">>
    /\ printed = <<1, 2>>

\* C15 as stated: after the handler has run, the records of the caller's
\* batch are as they were.
C15_InputUnchanged ==
    pc = "done" => event.events = batch

\* C15, amended: validation leaves the batch unchanged; classification works
\* in place: it sets the key event_type of the caller's own record to the
\* type of its name (adding the key, or overwriting the value the record
\* came with) and changes nothing else, so a record differs from the input
\* only by that key and only when it was classified, and a rejected record
\* never differs.
C15_OnlyEventTypeAdded ==
    /\ Len(event.events) = Len(batch)
    /\ pc \in {"validate", "classify"} => event.events = batch
    /\ \A i \in Positions :
          /\ event.events[i] = [batch[i] EXCEPT !.event_type = event.events[i].event_type]
          /\ event.events[i] # batch[i] =>
                i \in Accepted /\ batch[i].name.t = "str"
          /\ i \in Rejected => event.events[i] = batch[i]
          /\ i \in Range(events_with_type) =>
                event.events[i].event_type = Str(CategoryOf(batch[i].name.s))
    /\ pc \in {"types", "group", "print"} => Range(events_with_type) = Accepted

\* The handler has returned "events processed": the first record came with
\* the event_type "uu" and now has "u", the type of its name; the rejected
\* second record, which came with an event_type too, is unchanged.
C15_Witness ==
    /\ pc = "done"
    /\ result = Processed
    /\ Len(batch) = 2
    /\ batch[1].event_type = Str(<<"u", "u">>)
    /\ event.events[1] # batch[1]
    /\ event.events[1].event_type = Str(<<"u">>)
    /\ 2 \in Rejected
    /\ HasKey(batch[2], "event_type")
    /\ event.events[2] = batch[2]

\* The groups print raised for in this call.
FailedNow == TypesWith(events_groups, outcome, "Failed")

\* C16. A second call on the same event, with print raising in both calls
\* for the same group or in neither, gives what the first call gave: the
\* same value returned, the same groups with the same types and the same
\* records in the same order, the same outcomes.
C16_SecondCallSameResult ==
    (run = 2 /\ pc = "done" /\ FailedNow = first.failed) =>
        /\ result = first.result
        /\ Shown(events_groups, event.events) = first.groups
        /\ outcome = first.outcome

\* The second call has returned "events processed" with two groups, for a
\* batch of three records of which one was rejected.
C16_Witness ==
    /\ run = 2
    /\ pc = "done"
    /\ result = Processed
    /\ Len(events_groups) = 2
    /\ Cardinality(Rejected) = 1
    /\ first.result = Processed

\* Grouping in a single pass with an ordered mapping from type to records, as
\* the specification describes it: a record joins the group of its type, and
\* a type not seen before opens a new group at the end.
RECURSIVE SinglePassFrom(_, _, _, _)
SinglePassFrom(groups, refs, i, heap) ==
    IF i > Len(refs) THEN groups
    ELSE LET ty == heap[refs[i]].event_type
             known == \E j \in 1..Len(groups) : groups[j].event_type = ty
         IN SinglePassFrom(
                IF known THEN AddToGroups(groups, refs[i], heap)
                ELSE Append(groups, [event_type |-> ty, events |-> <<refs[i]>>]),
                refs, i + 1, heap)

\* C18. The groups the handler builds are the groups the single pass builds:
\* the same types in the same order, the same records in the same order.
C18_SameAsSinglePass ==
    Grouped => events_groups = SinglePassFrom(<<>>, events_with_type, 1, event.events)

\* No step of the handler failed: the event has "events", every element is
\* a mapping, every accepted name is a string and print never raised.
NothingFailed ==
    /\ AllMappings
    /\ \A i \in Positions : Valid(batch[i]) => batch[i].name.t = "str"
    /\ NoneFailed

\* C19. lambda_handler never raises: at every point before it returns it can
\* go on, and the value it returns is "events processed" exactly when no
\* step failed, "Error: Missing key in event data" exactly when the event is
\* a dict without "events" key, "Error: An unexpected error occurred"
\* otherwise.
C19_ReturnsOneOfThree ==
    /\ pc # "done" => result = "none" /\ ENABLED Next
    /\ pc = "done" =>
          /\ result \in Returns
          /\ result = ErrorResult("KeyError") <=>
                (event.mapping /\ ~event.has_events)
          /\ result = Processed <=> NothingFailed

\* The handler has returned the missing-key text for an event without
\* "events".
C19_Witness ==
    /\ pc = "done"
    /\ event.mapping
    /\ ~event.has_events
    /\ result = "Error: Missing key in event data"
    /\ log = <<"Missing key in event data">>

\* C20. Every group holds at least one record, no two groups have the same
\* type, and there are as many groups as distinct types among the accepted
\* records.
C20_GroupsOnlyForTypesThatOccur ==
    Grouped =>
        /\ \A j \in 1..Len(events_groups) : Len(events_groups[j].events) >= 1
        /\ \A a, b \in 1..Len(events_groups) :
              events_groups[a].event_type = events_groups[b].event_type => a = b
        /\ Len(events_groups) =
             Cardinality({event.events[r].event_type : r \in Range(events_with_type)})

\* Three records of three types have given three groups.
C20_Witness ==
    /\ Grouped
    /\ Len(batch) = 3
    /\ Len(events_groups) = 3

----------------------------------------------------------------------------
\* C21. add_events_to_group, called with any list of event types, returns
\* one group per entry of event_types, in the order of the list; a group
\* holds the records of its type and no other, each once, in the order of
\* the argument events; a record whose type is not listed is in no group,
\* and two entries with the same type give two groups with the same records.
C21_OneGroupPerListedType ==
    pc = "returned" =>
        /\ Len(events_groups) = Len(event_types)
        /\ \A j \in 1..Len(event_types) :
              /\ events_groups[j].event_type = event_types[j]
              /\ Range(events_groups[j].events) =
                    {r \in Positions : event.events[r].event_type = event_types[j]}
              /\ \A a, b \in 1..Len(events_groups[j].events) :
                    a < b => events_groups[j].events[a] < events_groups[j].events[b]
        /\ \A r \in Positions :
              event.events[r].event_type \notin Range(event_types) => GroupsOf(r) = {}
        /\ \A j, k \in 1..Len(event_types) :
              event_types[j] = event_types[k] =>
                  events_groups[j].events = events_groups[k].events

\* A type listed twice with two records of it, and a record of a type that
\* is not listed.
C21_Witness ==
    /\ pc = "returned"
    /\ Len(event_types) = 3
    /\ event_types[1] = event_types[3]
    /\ event_types[1] # event_types[2]
    /\ Len(batch) = 3
    /\ events_groups[1].events = <<1, 3>>
    /\ events_groups[3].events = <<1, 3>>
    /\ events_groups[2].events = <<>>
    /\ batch[2].event_type \notin Range(event_types)
    /\ GroupsOf(2) = {}

----------------------------------------------------------------------------
\* The start/stop handler was given a dict whose instance_ids is missing or
\* empty, or whose action is neither "start" nor "stop".
StartStopInputInvalid ==
    \/ ~ec2_event.instance_ids.given
    \/ ec2_event.instance_ids.list = <<>>
    \/ ec2_event.action \notin {"start", "stop"}

\* C22. Given a dict, the start/stop handler makes no EC2 call before it has
\* checked its input; when instance_ids is missing or empty or action is
\* neither "start" nor "stop" it makes no call at all and returns status
\* error with "Invalid input data"; otherwise it makes exactly one call,
\* start_instances for "start" and stop_instances for "stop", on the given
\* instance ids, and returns status success when the call returns and status
\* error with the text of the exception when it raises: it never raises.
C22_StartStopOneCallOrInvalid ==
    ec2_event.mapping =>
        /\ ec2_pc # "done" => ec2_calls = <<>> /\ ec2_response = NoResponse
        /\ (ec2_pc = "done" /\ StartStopInputInvalid) =>
              /\ ec2_calls = <<>>
              /\ ec2_response = Response("error", "Invalid input data", <<>>)
        /\ (ec2_pc = "done" /\ ~StartStopInputInvalid) =>
              /\ Len(ec2_calls) = 1
              /\ ec2_calls[1].op =
                   IF ec2_event.action = "start" THEN "start_instances"
                   ELSE "stop_instances"
              /\ ec2_calls[1].arg = ec2_event.instance_ids.list
              /\ ec2_calls[1].raised = "none" => ec2_response.status = "success"
              /\ ec2_calls[1].raised # "none" =>
                    /\ ec2_response.status = "error"
                    /\ ec2_response.text = ec2_calls[1].raised

\* stop_instances raised for two instances, and the handler returned the
\* text of the exception.
C22_Witness ==
    /\ ec2_pc = "done"
    /\ ec2_event.mapping
    /\ ec2_event.action = "stop"
    /\ Len(ec2_event.instance_ids.list) = 2
    /\ Len(ec2_calls) = 1
    /\ ec2_calls[1].raised = "UnauthorizedOperation"
    /\ ec2_response = Response("error", "UnauthorizedOperation", <<>>)

\* The age of the s-th snapshot of the list when the handler ran, in days,
\* and the calls that deleted it.
AgeDays(s) == utcnow - snapshots[s]
DeleteCalls(s) ==
    {k \in DOMAIN ec2_calls :
        ec2_calls[k].op = "delete_snapshot" /\ ec2_calls[k].arg = <<s>>}
NoCallRaised == \A k \in DOMAIN ec2_calls : ec2_calls[k].raised = "none"

\* C23. For action "delete" the snapshot handler calls delete_snapshot only
\* for snapshots more than 7 days old: a snapshot that is 7 days old or newer
\* is never deleted; and when the handler has returned and no call raised,
\* every snapshot of the list that is more than 7 days old was deleted, by
\* one call.
C23_DeletesOnlyOlderThanRetention ==
    (ec2_event.mapping /\ ec2_event.action = "delete") =>
        /\ \A s \in DOMAIN snapshots :
              AgeDays(s) <= RetentionDays => DeleteCalls(s) = {}
        /\ \A k \in DOMAIN ec2_calls :
              ec2_calls[k].op = "delete_snapshot" =>
                  /\ ec2_calls[k].arg[1] \in DOMAIN snapshots
                  /\ AgeDays(ec2_calls[k].arg[1]) > RetentionDays
        /\ (ec2_pc = "done" /\ NoCallRaised /\ ec2_event.volume_id = "vol-0") =>
              /\ ec2_response.status = "success"
              /\ \A s \in DOMAIN snapshots :
                    AgeDays(s) > RetentionDays => Cardinality(DeleteCalls(s)) = 1

\* Snapshots 8, 7 and 6 days old: the first one was deleted, the one that is
\* exactly 7 days old and the newer one were not.
C23_Witness ==
    /\ ec2_pc = "done"
    /\ ec2_event.action = "delete"
    /\ ec2_response.status = "success"
    /\ Len(snapshots) = 3
    /\ AgeDays(1) = RetentionDays + 1
    /\ AgeDays(2) = RetentionDays
    /\ AgeDays(3) = RetentionDays - 1
    /\ DeleteCalls(1) # {}
    /\ DeleteCalls(2) = {}
    /\ DeleteCalls(3) = {}

----------------------------------------------------------------------------
\* The records of the batch, the ones that vote for x, and the ones before
\* the k-th that vote for x.
Records == poll_event.Records
VotesFor(x) == Cardinality({k \in DOMAIN Records : Records[k].vote = x})
VotesBefore(k, x) == Cardinality({j \in 1..(k - 1) : Records[j].vote = x})
SumOfCounts ==
    vote_counts["Candidate_A"] + vote_counts["Candidate_B"]
    + vote_counts["Candidate_C"] + vote_counts["Candidate_D"]
    + vote_counts["Candidate_E"]
CountsPrinted == \E k \in DOMAIN poll_printed : poll_printed[k].kind = "counts"

\* A record parses: its body is a JSON object with voter_id and vote.
Parses(record) ==
    /\ record.body = "object"
    /\ record.voter_id # KeyMissing
    /\ record.vote # KeyMissing

\* C24. After a batch in which every record parses, the handler has returned
\* 200, each candidate's count is the number of records voting for that
\* candidate, and the five counts add up to the number of records that name
\* one of the five candidates: a vote for anything else changed no count and
\* did not stop the batch.
C24_CountsMatchVotes ==
    (poll_pc = "done" /\ poll_event.has_records
        /\ \A k \in DOMAIN Records : Parses(Records[k])) =>
        /\ poll_response.statusCode = 200
        /\ \A c \in Candidates : vote_counts[c] = VotesFor(c)
        /\ SumOfCounts =
             Cardinality({k \in DOMAIN Records : Records[k].vote \in Candidates})

\* A malformed record: a body that is not JSON, or a body without voter_id
\* or vote (an object without the key, or JSON that is no object).
Malformed(record) ==
    \/ record.body \in {"text", "scalar"}
    \/ record.body = "object"
         /\ (record.voter_id = KeyMissing \/ record.vote = KeyMissing)
SomeMalformed == \E k \in DOMAIN Records : Malformed(Records[k])
FirstMalformed ==
    CHOOSE k \in DOMAIN Records :
        Malformed(Records[k]) /\ \A j \in 1..(k - 1) : ~Malformed(Records[j])

\* C25. A malformed record aborts the whole batch: the handler returns 500,
\* no record at or after the first malformed one was counted (the counts
\* are those of the records before it when all of them are votes for names
\* print can write), and the counts were neither printed nor returned; and
\* a batch that returned 200 has no malformed record.
C25_MalformedAbortsBatch ==
    (poll_pc \in {"done", "raised"} /\ poll_event.has_records) =>
        /\ SomeMalformed =>
              /\ poll_response =
                   [statusCode |-> 500, body |-> "Error processing votes."]
              /\ ~CountsPrinted
              /\ \A c \in Candidates : vote_counts[c] <= VotesBefore(FirstMalformed, c)
              /\ (\A j \in 1..(FirstMalformed - 1) :
                      Records[j].vote \in Candidates \cup {"Nobody"}) =>
                    \A c \in Candidates :
                        vote_counts[c] = VotesBefore(FirstMalformed, c)
        /\ poll_response.statusCode = 200 => ~SomeMalformed

----------------------------------------------------------------------------
\* C26. In the vote-processing loop a message is deleted only after its body
\* was parsed, and at most once per receive; a message whose processing
\* raises (an element of the receive for which the try of line 309 raised)
\* is not deleted by it, and one whose body does not parse is never
\* deleted; and the loop goes on with the next message of the same receive:
\* no exception of a message ends main, the loop has handled the elements
\* of the receive before the one it is at, and it leaves the receive only
\* after the last one.
C26_DeleteOnlyAfterParse ==
    /\ \A k \in DOMAIN handled :
          handled[k].what = "deleted" =>
              \E p \in 1..(k - 1) :
                  handled[p] = [handled[k] EXCEPT !.what = "parsed"]
    /\ \A m \in Msgs : queue[m].at = "deleted" => queue[m].body = "vote"
    /\ \A m \in Msgs :
          Cardinality({k \in DOMAIN handled :
                          handled[k].m = m /\ handled[k].what = "deleted"}) <= 1
    /\ \A k, d \in DOMAIN handled :
          (handled[k].what = "raised" /\ handled[d].what = "deleted") =>
              handled[k].j # handled[d].j
    /\ handled # <<>> => loop_pc # "raised"
    /\ loop_pc \in {"process", "receive"} =>
          {handled[k].j : k \in DOMAIN handled} = 1..(msg_i - 1)
    /\ loop_pc = "process" <=> msg_i <= Len(messages)

\* C27. With the redrive policy set on the main queue, the vote-processing
\* loop eventually ends with the main queue empty: every message has been
\* deleted after processing or, having kept failing, moved to the
\* dead-letter queue (a vote the queue refused when it was sent never was in
\* it). A run in which an exception that main does not catch ends main is
\* left out.
C27_EndsWithQueueEmpty ==
    redrive =>
        <>(\/ loop_pc = "raised"
           \/ /\ loop_pc = "exited"
              /\ \A m \in Msgs : queue[m].at \in {"deleted", "dlq", "refused"})

----------------------------------------------------------------------------
\* C28. When create_dead_letter_queue has returned a queue URL, the
\* RedrivePolicy of the source queue is the ARN of that queue with the given
\* maxReceiveCount; when it has returned None, the attributes of the source
\* queue are what they were.
C28_ReturnedUrlMeansPolicySet ==
    dlq_pc = "done" =>
        /\ dlq_result # None =>
              /\ dlq_result = Url(dlq_args.dlq_name)
              /\ source_attributes.RedrivePolicy =
                   RedrivePolicy(Arn(dlq_args.dlq_name), dlq_args.max_receive_count)
        /\ dlq_result = None => source_attributes = dlq_args.source_before


\* The names process_file was called with.
PassedNames == {passed[k][1] : k \in DOMAIN passed}

\* C29. scan_directory processes new files exactly once: when the loop over
\* a listing is over, every regular file that listing saw as new (and that
\* nothing has touched since) has been passed to process_file, and no name is
\* passed to process_file twice.
C29_EveryNewFilePassedOnce ==
    /\ scan_pc \in {"update", "listdir", "raised"} => listed \subseteq PassedNames
    /\ \A j, k \in DOMAIN passed : passed[j][1] = passed[k][1] => j = k

====
